---- MODULE Spec2Model ----
(***************************************************************************)
(* Model of virt_lightning.py: the LibvirtHypervisor session (address      *)
(* allocator, DNS/DHCP host tables of the managed network, start and       *)
(* clean_up) and the LibvirtDomain object (metadata, user-data document).  *)
(*                                                                         *)
(* IPv4 addresses are the low 16 bits of 192.0.x.y, so 192.0.2.5 is        *)
(* 2*256+5 = 517.  An interface is an address with a prefix length, as     *)
(* ipaddress.IPv4Interface.  The libvirt calls (network update, define,    *)
(* create, destroy, attach) are modelled by their effect on the state      *)
(* the hypervisor holds.                                                   *)
(***************************************************************************)
EXTENDS Integers, Sequences, FiniteSets, TLC

\* ------------------------------------------------------------------ bounds
MaxAllocs == 4
MaxNics == 2
MaxDisks == 3
MaxHosts == 3

Domains == {"vm1", "vm2"}
MacPool == {"m1", "m2", "m3"}

\* The specifications that follow a single domain use this one.
OneDomain == {"vm1"}

\* ------------------------------------------------------------- addresses
NoIface == [ip |-> -1, prefixlen |-> -1]

IPv4Interface(ip, p) == [ip |-> ip, prefixlen |-> p]

Pow2(n) == 2 ^ n

NumAddresses(p) == Pow2(32 - p)

NetworkOf(i) == [base |-> i.ip - (i.ip % NumAddresses(i.prefixlen)),
                 prefixlen |-> i.prefixlen]

NetworkLt(n, m) ==
    IF n.base # m.base THEN n.base < m.base
    ELSE n.prefixlen < m.prefixlen

InterfaceLt(a, b) ==
    \/ NetworkLt(NetworkOf(a), NetworkOf(b))
    \/ (NetworkOf(a) = NetworkOf(b) /\ a.ip < b.ip)

\* Mutation: the cursor test lets the cursor's own address through.
InterfaceGe_Strict(a, b) == InterfaceLt(b, a)

InterfaceGe(a, b) == ~InterfaceLt(a, b)

HostOctet(ip) == ip % 256

LastAddress(n) == n.base + NumAddresses(n.prefixlen) - 1

\* The networks init_network may find or create: a gateway with its netmask.
\* 192.0.2.1/24 and 192.0.2.1/29 are networks create_network defines;
\* 192.0.2.9/29 and 192.0.2.5/29 are existing networks it looks up.
Gateways ==
    { IPv4Interface(513, 24), IPv4Interface(513, 29),
      IPv4Interface(521, 29), IPv4Interface(517, 29) }

\* ------------------------------------------------------------------ state
VARIABLES
    hv_network,       \* the network of the managed name, as the hypervisor holds it
    network_obj,      \* LibvirtHypervisor.network_obj is set
    gateway,          \* LibvirtHypervisor.gateway (dns and network derive from it)
    last_free_ipv4,   \* LibvirtHypervisor._last_free_ipv4
    defined,          \* domains the hypervisor has defined
    running,          \* domains whose state is not VIR_DOMAIN_SHUTOFF
    md_ipv4,          \* persisted metadata "ipv4" of each domain
    md_distro,        \* persisted metadata "distro" of each domain
    macs,             \* interface MAC addresses in the domain definition
    disks,            \* file-backed disks in the domain definition
    volumes,          \* volumes of the storage pool
    dns,              \* <dns><host ip=...> entries of the live network
    dhcp,             \* <ip><dhcp><host mac=... ip=...> entries of the live network
    additional_ipv4,  \* LibvirtDomain.additional_ipv4 (in memory)
    blockdev,         \* letters popped from LibvirtDomain.blockdev (in memory)
    ret,              \* value returned by the last get_free_ipv4 call
    handed,           \* addresses get_free_ipv4 returned in this session, in order
    lastOp,           \* the operation that ran last and how it ended
    steps,            \* the calls the last start() or failed clean_up()
                      \* completed, in order
    domain,           \* the LibvirtDomain being configured: metadata, user_data, attributes
    distro_config,    \* get_distro_configuration(domain.distro) of the configure_domain call
    user_config,      \* user_config of the configure_domain call
    config,           \* the merged config of the last configure_domain call
    arg,              \* the value handed to the username and fqdn setters
    flows,            \* the allocation flow of each domain: its position, its address
    serialized,       \* the caller runs one allocation flow at a time
    probe,            \* the reachable() call of each domain: its position, its
                      \* failed attempts
    service           \* what port 22 of each domain's address does to a connection

netObjVars == <<hv_network, network_obj>>
raceVars == <<flows, serialized>>
probeVars == <<probe, service>>
hvVars == <<gateway, last_free_ipv4, ret, handed>>
domVars == <<defined, running, md_ipv4, md_distro, macs, disks, additional_ipv4, blockdev>>
netVars == <<dns, dhcp>>
confVars == <<domain, distro_config, user_config, config, arg>>

vars == <<hv_network, network_obj, gateway, last_free_ipv4, defined, running, md_ipv4, md_distro, macs, disks,
          volumes, dns, dhcp, additional_ipv4, blockdev, ret, handed, lastOp, steps,
          domain, distro_config, user_config, config, arg, flows, serialized,
          probe, service>>

network == NetworkOf(gateway)

Op(name, d, outcome) == [op |-> name, dom |-> d, outcome |-> outcome]

\* ------------------------------------------------------- get_free_ipv4
\* Mutation: the scan of the defined domains' metadata is left out.
used_ips_GatewayOnly == {gateway.ip}

used_ips == {gateway.ip} \cup {md_ipv4[d].ip : d \in {e \in defined : md_ipv4[e] # NoIface}}

\* Mutation: no address is reserved.
IsReserved_Never(interface) == FALSE

IsReserved(interface) == HostOctet(interface.ip) < 5

\* Mutation: the cursor is never advanced.
AdvanceCursor_Never(last, r) == last

\* self._last_free_ipv4 = interface, on the returning path only
AdvanceCursor(last, r) == IF r # NoIface THEN r ELSE last

\* Mutation: the scan covers the usable hosts only and stops before the
\* last address of the network.
LastScanned_Hosts(n) == LastAddress(n) - 1

\* for ip in self.network: the last address the iteration yields
LastScanned(n) == LastAddress(n)

RECURSIVE ScanFrom(_, _, _, _)
ScanFrom(ip, last, used, lastAddr) ==
    IF ip > lastAddr THEN NoIface
    ELSE LET interface == IPv4Interface(ip, 24) IN
         IF IsReserved(interface) THEN ScanFrom(ip + 1, last, used, lastAddr)
         ELSE IF last # NoIface /\ InterfaceGe(last, interface)
              THEN ScanFrom(ip + 1, last, used, lastAddr)
         ELSE IF interface.ip \notin used THEN interface
         ELSE ScanFrom(ip + 1, last, used, lastAddr)

get_free_ipv4(last, used) == ScanFrom(network.base, last, used, LastScanned(network))

GetFreeIpv4 ==
    /\ UNCHANGED <<confVars, netObjVars, raceVars, probeVars>>
    /\ steps' = <<>>
    /\ Len(handed) < MaxAllocs
    /\ LET r == get_free_ipv4(last_free_ipv4, used_ips) IN
        /\ ret' = r
        /\ last_free_ipv4' = AdvanceCursor(last_free_ipv4, r)
        /\ handed' = IF r # NoIface THEN Append(handed, r.ip) ELSE handed
    /\ lastOp' = Op("get_free_ipv4", "", "returned")
    /\ UNCHANGED <<gateway, domVars, volumes, netVars>>

\* --------------------------------------------- live network host tables
\* The hypervisor is taken to accept every update: it keeps no entry unique
\* by itself, so what the tables hold is decided by the calls of this code.
\* network_obj.update(VIR_NETWORK_UPDATE_COMMAND_ADD_FIRST, ...)
AddFirst(table, entry) == <<entry>> \o table

\* network_obj.update(VIR_NETWORK_UPDATE_COMMAND_DELETE, ...): the first
\* entry equal to the given one leaves the table.
RECURSIVE DeleteEntry(_, _)
DeleteEntry(table, entry) ==
    IF table = <<>> THEN <<>>
    ELSE IF Head(table) = entry THEN Tail(table)
    ELSE <<Head(table)>> \o DeleteEntry(Tail(table), entry)

SeqToSet(q) == {q[i] : i \in 1..Len(q)}

\* Mutation: every host the pass finds is deleted.
HostMatches_All(host, attr, key) == TRUE

\* The test a removal pass applies to a host: its ip attribute against the
\* domain's address, or its mac attribute against the domain's interfaces.
HostMatches(host, attr, key) ==
    IF attr = "ip" THEN host.ip = key ELSE host.mac \in key

\* One removal pass: walk the hosts found in the descriptor read before the
\* pass and delete each one that matches.
RECURSIVE RemovePass(_, _, _, _)
RemovePass(table, found, attr, key) ==
    IF found = <<>> THEN table
    ELSE IF HostMatches(Head(found), attr, key)
         THEN RemovePass(DeleteEntry(table, Head(found)), Tail(found), attr, key)
         ELSE RemovePass(table, Tail(found), attr, key)

\* remove_domain_from_network: the tables it leaves.  ipv4 is the domain's
\* persisted address, mac_addresses its interfaces.
\* Mutation: the DNS pass is left out.
remove_dns_Skip(table, ipv4) == table

remove_dns(table, ipv4) ==
    IF ipv4 = NoIface THEN table
    ELSE RemovePass(table, table, "ip", ipv4.ip)

remove_dhcp(table, ipv4, mac_addresses) ==
    IF ipv4 = NoIface THEN table
    ELSE LET afterIp == RemovePass(table, table, "ip", ipv4.ip)
         IN  RemovePass(afterIp, afterIp, "mac", SeqToSet(mac_addresses))

\* set_dns_entry: hostnames are the truthy names among [name, fqdn]; the
\* fqdn metadata is not set by any operation of this specification.
set_dns_entry(table, ipv4, names) ==
    AddFirst(table, [ip |-> ipv4.ip, names |-> SelectSeq(names, LAMBDA n : n # "")])

set_dhcp_entry(table, ipv4, mac) ==
    AddFirst(table, [ip |-> ipv4.ip, mac |-> mac])

\* A host entry the table already holds for the address (DNS) or for the
\* address or the MAC (DHCP): the entries the hypervisor may refuse to add.
DnsConflict(table, entry) == \E i \in 1..Len(table) : table[i].ip = entry.ip

DhcpConflict(table, entry) ==
    \E i \in 1..Len(table) : table[i].ip = entry.ip \/ table[i].mac = entry.mac

\* set_dns_entry called by itself.  The code sends ADD_FIRST whatever the
\* table holds; when the table has an entry for the address the update is
\* either taken or refused with libvirtError, which the code lets through.
SetDnsEntry(ipv4, names) ==
    /\ UNCHANGED <<confVars, netObjVars, raceVars, probeVars>>
    /\ steps' = <<>>
    /\ Len(dns) < MaxHosts
    /\ \E accepted \in BOOLEAN :
          IF accepted \/ ~DnsConflict(dns, Head(set_dns_entry(<<>>, ipv4, names)))
          THEN /\ dns' = set_dns_entry(dns, ipv4, names)
               /\ lastOp' = Op("set_dns_entry", "", "returned")
          ELSE /\ dns' = dns
               /\ lastOp' = Op("set_dns_entry", "", "raised")
    /\ UNCHANGED <<hvVars, domVars, volumes, dhcp>>

SetDhcpEntry(ipv4, mac) ==
    /\ UNCHANGED <<confVars, netObjVars, raceVars, probeVars>>
    /\ steps' = <<>>
    /\ Len(dhcp) < MaxHosts
    /\ \E accepted \in BOOLEAN :
          IF accepted \/ ~DhcpConflict(dhcp, Head(set_dhcp_entry(<<>>, ipv4, mac)))
          THEN /\ dhcp' = set_dhcp_entry(dhcp, ipv4, mac)
               /\ lastOp' = Op("set_dhcp_entry", "", "returned")
          ELSE /\ dhcp' = dhcp
               /\ lastOp' = Op("set_dhcp_entry", "", "raised")
    /\ UNCHANGED <<hvVars, domVars, volumes, dns>>

\* Mutation: the retraction also drops the address from the metadata.
RemoveDomainFromNetwork_ClearsIpv4(d) ==
    /\ UNCHANGED <<confVars, netObjVars, raceVars, probeVars>>
    /\ steps' = <<>>
    /\ d \in defined
    /\ dns' = remove_dns(dns, md_ipv4[d])
    /\ dhcp' = remove_dhcp(dhcp, md_ipv4[d], macs[d])
    /\ md_ipv4' = [md_ipv4 EXCEPT ![d] = NoIface]
    /\ lastOp' = Op("remove_domain_from_network", d, "returned")
    /\ UNCHANGED <<hvVars, defined, running, md_distro, macs, disks, additional_ipv4,
                   blockdev, volumes>>

RemoveDomainFromNetwork(d) ==
    /\ UNCHANGED <<confVars, netObjVars, raceVars, probeVars>>
    /\ steps' = <<>>
    /\ d \in defined
    /\ dns' = remove_dns(dns, md_ipv4[d])
    /\ dhcp' = remove_dhcp(dhcp, md_ipv4[d], macs[d])
    /\ lastOp' = Op("remove_domain_from_network", d, "returned")
    /\ UNCHANGED <<hvVars, domVars, volumes>>

\* ------------------------------------------------------------ domains
\* A distro tag is a string, kept as its sequence of tokens.
Fedora30 == <<"fedora", "-", "30">>
Centos69 == <<"centos", "-", "6", ".", "9">>
Distros == {Fedora30, Centos69}

startswith(str, prefix) ==
    Len(str) >= Len(prefix) /\ SubSeq(str, 1, Len(prefix)) = prefix

\* The address a caller passes: the address get_free_ipv4 just returned, or
\* a fixed address of the managed network chosen by the user.
StaticAddress == IPv4Interface(network.base + 6, 24)

OtherAddress == IPv4Interface(network.base + 7, 24)

AddressInputs == ({ret} \ {NoIface}) \cup {StaticAddress, OtherAddress}

MacsInUse == UNION {SeqToSet(macs[d]) : d \in defined}

\* create_domain: defineXML of a fresh definition, a fresh LibvirtDomain.
CreateDomain(d, distro) ==
    /\ UNCHANGED <<confVars, netObjVars, raceVars, probeVars>>
    /\ steps' = <<>>
    /\ d \notin defined
    /\ defined' = defined \cup {d}
    /\ md_distro' = [md_distro EXCEPT ![d] = distro]
    /\ md_ipv4' = [md_ipv4 EXCEPT ![d] = NoIface]
    /\ macs' = [macs EXCEPT ![d] = <<>>]
    /\ disks' = [disks EXCEPT ![d] = <<>>]
    /\ additional_ipv4' = [additional_ipv4 EXCEPT ![d] = <<>>]
    /\ blockdev' = [blockdev EXCEPT ![d] = 0]
    /\ lastOp' = Op("create_domain", d, "returned")
    /\ UNCHANGED <<hvVars, running, volumes, netVars>>

\* ipv4 setter: record_metadata("ipv4", value)
SetIpv4(d, value) ==
    /\ UNCHANGED <<confVars, netObjVars, raceVars, probeVars>>
    /\ steps' = <<>>
    /\ d \in defined
    /\ md_ipv4' = [md_ipv4 EXCEPT ![d] = value]
    /\ lastOp' = Op("ipv4", d, "returned")
    /\ UNCHANGED <<hvVars, defined, running, md_distro, macs, disks, additional_ipv4,
                   blockdev, volumes, netVars>>

\* Arguments of attachNetwork(ipv4=...): None, "dhcp", an IPv4Interface, or
\* a string without a slash.
ArgNone == [kind |-> "none", ip |-> -1, prefixlen |-> -1]
ArgDhcp == [kind |-> "dhcp", ip |-> -1, prefixlen |-> -1]
ArgIface(i) == [kind |-> "iface", ip |-> i.ip, prefixlen |-> i.prefixlen]
ArgStr(ip) == [kind |-> "str", ip |-> ip, prefixlen |-> 0]

AttachArgs == {ArgNone, ArgDhcp, ArgStr(StaticAddress.ip)} \cup {ArgIface(i) : i \in {ret} \ {NoIface}}

\* attachNetwork raises on IPv4Interface("dhcp/24") when the domain has no
\* primary address yet: nothing is recorded and no interface is attached.
AttachNetworkRaises(d, ipv4) == md_ipv4[d] = NoIface /\ ipv4.kind = "dhcp"

\* Mutation: the address argument replaces a primary address already set.
attachNetwork_ipv4_Replace(old, ipv4) ==
    IF ipv4.kind = "iface" THEN IPv4Interface(ipv4.ip, ipv4.prefixlen)
    ELSE IF ipv4.kind = "str" /\ ipv4.prefixlen = 0 THEN IPv4Interface(ipv4.ip, 24)
    ELSE IF ipv4.kind = "str" THEN IPv4Interface(ipv4.ip, ipv4.prefixlen)
    ELSE old

attachNetwork_ipv4(old, ipv4) ==
    IF old # NoIface THEN old
    ELSE IF ipv4.kind = "iface" THEN IPv4Interface(ipv4.ip, ipv4.prefixlen)
    ELSE IF ipv4.kind = "str" /\ ipv4.prefixlen = 0 THEN IPv4Interface(ipv4.ip, 24)
    ELSE IF ipv4.kind = "str" THEN IPv4Interface(ipv4.ip, ipv4.prefixlen)
    ELSE old

attachNetwork_additional(old, additional, ipv4) ==
    IF old # NoIface THEN Append(additional, ipv4) ELSE additional

AttachNetwork(d, ipv4, mac) ==
    /\ UNCHANGED <<confVars, netObjVars, raceVars, probeVars>>
    /\ steps' = <<>>
    /\ d \in defined
    /\ Len(macs[d]) < MaxNics
    /\ mac \notin MacsInUse
    /\ IF AttachNetworkRaises(d, ipv4)
       THEN /\ lastOp' = Op("attachNetwork", d, "raised")
            /\ UNCHANGED <<md_ipv4, additional_ipv4, macs>>
       ELSE /\ md_ipv4' = [md_ipv4 EXCEPT ![d] = attachNetwork_ipv4(md_ipv4[d], ipv4)]
            /\ additional_ipv4' = [additional_ipv4 EXCEPT
                                     ![d] = attachNetwork_additional(md_ipv4[d], @, ipv4)]
            /\ macs' = [macs EXCEPT ![d] = Append(@, mac)]
            /\ lastOp' = Op("attachNetwork", d, "returned")
    /\ UNCHANGED <<hvVars, defined, running, md_distro, disks, blockdev, volumes, netVars>>

\* ------------------------------------------------------------- start
Cidata(d) == <<d, "cidata">>

\* start(): which prepare_cloud_init_* builds the seed media.
\* Mutation: the distro is looked at only when no provider is given.
UsesNocloud_HintFirst(provider, distro) ==
    \/ provider = "nocloud"
    \/ /\ provider = ""
       /\ \/ startswith(distro, <<"rhel", "-", "6", ".">>)
          \/ startswith(distro, <<"centos", "-", "6", ".">>)

UsesNocloud(provider, distro) ==
    \/ provider = "nocloud"
    \/ startswith(distro, <<"rhel", "-", "6", ".">>)
    \/ startswith(distro, <<"centos", "-", "6", ".">>)

\* generate_openstack_network_config: the document is a record of its
\* links and networks; a link or network id is its prefix and number.
Links(mac_addresses) ==
    [i \in 1..Len(mac_addresses) |->
        [id |-> <<"interface", i - 1>>, type |-> "phy",
         ethernet_mac_address |-> mac_addresses[i]]]

\* "/" not in ipv4 raises TypeError on an IPv4Interface: the test is written
\* for strings.
AdditionalRaises(additional) ==
    \E i \in 1..Len(additional) : additional[i].kind = "iface"

\* The entries of additional_ipv4 from index i (counted from 0) on.
RECURSIVE AdditionalNetworks(_, _)
AdditionalNetworks(additional, i) ==
    IF additional = <<>> THEN <<>>
    ELSE LET ipv4 == Head(additional)
             rest == AdditionalNetworks(Tail(additional), i + 1)
         IN  IF ipv4.kind = "none" THEN rest
             ELSE IF ipv4.kind = "dhcp"
             THEN <<[id |-> <<"private-ipv4-", i>>, type |-> "ipv4_dhcp",
                     link |-> <<"interface", i + 1>>, ip_address |-> -1,
                     netmask |-> -1, routes |-> <<>>]>> \o rest
             ELSE <<[id |-> <<"private-ipv4-", i>>, type |-> "ipv4",
                     link |-> <<"interface", i + 1>>, ip_address |-> ipv4.ip,
                     netmask |-> IF ipv4.prefixlen = 0 THEN 24 ELSE ipv4.prefixlen,
                     routes |-> <<>>]>> \o rest

PrimaryNetwork(ipv4) ==
    [id |-> <<"private-ipv4">>, type |-> "ipv4", link |-> <<"interface", 0>>,
     ip_address |-> ipv4.ip, netmask |-> network.prefixlen,
     routes |-> <<[network |-> 0, netmask |-> 0, gateway |-> gateway.ip]>>]

generate_openstack_network_config(d) ==
    IF AdditionalRaises(additional_ipv4[d]) \/ md_ipv4[d] = NoIface
    THEN [raised |-> TRUE, links |-> <<>>, networks |-> <<>>, services |-> <<>>]
    ELSE [raised |-> FALSE,
          links |-> Links(macs[d]),
          networks |-> <<PrimaryNetwork(md_ipv4[d])>>
                       \o AdditionalNetworks(additional_ipv4[d], 0),
          services |-> <<[type |-> "dns", address |-> gateway.ip]>>]

\* prepare_cloud_init_*_iso raises before it creates the volume: both
\* dialects read domain.ipv4.ip, the nocloud one also mac_addresses[0], the
\* openstack one builds the network document.
PrepareRaises(d, provider) ==
    \/ md_ipv4[d] = NoIface
    \/ (UsesNocloud(provider, md_distro[d]) /\ macs[d] = <<>>)
    \/ (~UsesNocloud(provider, md_distro[d]) /\ generate_openstack_network_config(d).raised)

\* getNextBlckDevice: the n-th letter popped is device vd<n-th letter>.
getNextBlckDevice(popped) == popped + 1

\* attachDisk: the definition's disk list after the call.
attachDisk(disklist, popped, file, device, distro) ==
    Append(disklist, [dev |-> getNextBlckDevice(popped), file |-> file,
                      device |-> device,
                      bus |-> IF device = "cdrom" THEN "ide"
                              ELSE IF startswith(distro, <<"esxi">>) THEN "sata"
                              ELSE "virtio"])

\* __init__ of the session, and of the LibvirtDomain objects it hands out.
SessionReset ==
    /\ last_free_ipv4' = NoIface
    /\ ret' = NoIface
    /\ handed' = <<>>
    /\ additional_ipv4' = [d \in Domains |-> <<>>]
    /\ blockdev' = [d \in Domains |-> 0]

NewSession ==
    /\ UNCHANGED <<confVars, netObjVars, raceVars, probeVars>>
    /\ steps' = <<>>
    /\ SessionReset
    /\ lastOp' = Op("__init__", "", "returned")
    /\ UNCHANGED <<gateway, defined, running, md_ipv4, md_distro, macs, disks,
                   volumes, netVars>>

\* add_domain_to_network: set_dns_entry, then set_dhcp_entry with
\* mac_addresses[0], which raises IndexError on a domain without interface.
add_dns(table, d) == set_dns_entry(table, md_ipv4[d], <<d, "">>)

add_dhcp(table, d) ==
    IF macs[d] = <<>> THEN table ELSE set_dhcp_entry(table, md_ipv4[d], macs[d][1])

\* The prepare_cloud_init_*_iso call start() makes.
Prepare(provider, distro) ==
    IF UsesNocloud(provider, distro) THEN "prepare_cloud_init_nocloud_iso"
    ELSE "prepare_cloud_init_openstack_iso"

\* add_domain_to_network called by itself: domain.ipv4.ip raises on a domain
\* without address; the tables take at most MaxHosts entries.
AddDomainToNetwork(d) ==
    /\ UNCHANGED <<confVars, netObjVars, raceVars, probeVars>>
    /\ steps' = <<>>
    /\ d \in defined
    /\ Len(dns) < MaxHosts
    /\ IF md_ipv4[d] = NoIface
       THEN /\ lastOp' = Op("add_domain_to_network", d, "raised")
            /\ UNCHANGED netVars
       ELSE /\ dns' = add_dns(dns, d)
            /\ dhcp' = add_dhcp(dhcp, d)
            /\ lastOp' = Op("add_domain_to_network", d,
                            IF macs[d] = <<>> THEN "raised" ELSE "returned")
    /\ UNCHANGED <<hvVars, domVars, volumes>>

\* start() on the LibvirtDomain of a domain that was undefined: the first
\* read of the definition or its metadata raises libvirtError.
StartUndefined(d, provider) ==
    /\ UNCHANGED <<confVars, netObjVars, raceVars, probeVars>>
    /\ steps' = <<>>
    /\ d \notin defined
    /\ lastOp' = Op("start", d, "raised")
    /\ UNCHANGED <<hvVars, domVars, volumes, netVars>>

\* The end of start(): remove_domain_from_network, then
\* add_domain_to_network, on the DNS hosts.
\* Mutation: the entry is added before the retraction.
reregister_dns_AddThenRemove(table, d) == remove_dns(add_dns(table, d), md_ipv4[d])

reregister_dns(table, d) == add_dns(remove_dns(table, md_ipv4[d]), d)

\* How a start() that reached the registration ended: IndexError on a domain
\* without interface, else a return, told apart by whether the retraction
\* found entries of the domain to replace.
StartOutcome(d) ==
    IF macs[d] = <<>> THEN "raised"
    ELSE IF remove_dns(dns, md_ipv4[d]) # dns \/ remove_dhcp(dhcp, md_ipv4[d], macs[d]) # dhcp
         THEN "replaced"
    ELSE "returned"

Start(d, provider) ==
    /\ UNCHANGED <<confVars, netObjVars, raceVars, probeVars>>
    /\ d \in defined
    /\ IF PrepareRaises(d, provider)
       THEN /\ lastOp' = Op("start", d, "raised")
            /\ steps' = <<>>
            /\ UNCHANGED <<hvVars, domVars, volumes, netVars>>
       ELSE IF Cidata(d) \in volumes
       THEN \* create_disk: VIR_ERR_STORAGE_VOL_EXIST, sys.exit(1)
            /\ SessionReset
            /\ lastOp' = Op("start", d, "exit")
            /\ steps' = <<>>
            /\ UNCHANGED <<gateway, defined, running, md_ipv4, md_distro, macs, disks,
                           volumes, netVars>>
       ELSE /\ volumes' = volumes \cup {Cidata(d)}
            /\ disks' = [disks EXCEPT
                           ![d] = attachDisk(@, blockdev[d], Cidata(d), "cdrom", md_distro[d])]
            /\ blockdev' = [blockdev EXCEPT ![d] = @ + 1]
            /\ UNCHANGED <<hvVars, defined, md_ipv4, md_distro, macs, additional_ipv4>>
            /\ IF d \in running
               THEN \* dom.create() on a running domain raises
                    /\ lastOp' = Op("start", d, "raised")
                    /\ steps' = <<Prepare(provider, md_distro[d]), "attachDisk">>
                    /\ UNCHANGED <<running, netVars>>
               ELSE /\ running' = running \cup {d}
                    /\ dns' = reregister_dns(dns, d)
                    /\ dhcp' = add_dhcp(remove_dhcp(dhcp, md_ipv4[d], macs[d]), d)
                    /\ lastOp' = Op("start", d, StartOutcome(d))
                    /\ steps' = <<Prepare(provider, md_distro[d]), "attachDisk", "create",
                                  "remove_domain_from_network", "set_dns_entry">>
                                 \o (IF macs[d] = <<>> THEN <<>> ELSE <<"set_dhcp_entry">>)

\* ------------------------------------------------- disks of a domain
RootDisk(d) == <<d, "root">>

\* create_disk(name): the volume joins the pool; on a name the pool already
\* holds, VIR_ERR_STORAGE_VOL_EXIST and sys.exit(1).
CreateDisk(d) ==
    /\ UNCHANGED <<confVars, netObjVars, raceVars, probeVars>>
    /\ steps' = <<>>
    /\ IF RootDisk(d) \in volumes
       THEN /\ SessionReset
            /\ lastOp' = Op("create_disk", d, "exit")
            /\ UNCHANGED volumes
       ELSE /\ volumes' = volumes \cup {RootDisk(d)}
            /\ lastOp' = Op("create_disk", d, "returned")
            /\ UNCHANGED <<hvVars, additional_ipv4, blockdev>>
    /\ UNCHANGED <<gateway, defined, running, md_ipv4, md_distro, macs, disks, netVars>>

\* add_root_disk(root_disk_path): attachDisk of a volume of the pool.
AddRootDisk(d) ==
    /\ UNCHANGED <<confVars, netObjVars, raceVars, probeVars>>
    /\ steps' = <<>>
    /\ d \in defined
    /\ RootDisk(d) \in volumes
    /\ Len(disks[d]) < MaxDisks
    /\ disks' = [disks EXCEPT
                   ![d] = attachDisk(@, blockdev[d], RootDisk(d), "disk", md_distro[d])]
    /\ blockdev' = [blockdev EXCEPT ![d] = @ + 1]
    /\ lastOp' = Op("add_root_disk", d, "returned")
    /\ UNCHANGED <<hvVars, defined, running, md_ipv4, md_distro, macs, additional_ipv4,
                   volumes, netVars>>

\* get_domain_by_name: a new LibvirtDomain object around the looked-up
\* domain; what the object keeps in memory starts afresh, what the
\* definition and its metadata hold is read back.
GetDomainByName(d) ==
    /\ UNCHANGED <<confVars, netObjVars, raceVars, probeVars>>
    /\ steps' = <<>>
    /\ IF d \in defined
       THEN /\ additional_ipv4' = [additional_ipv4 EXCEPT ![d] = <<>>]
            /\ blockdev' = [blockdev EXCEPT ![d] = 0]
            /\ lastOp' = Op("get_domain_by_name", d, "returned")
       ELSE \* VIR_ERR_NO_DOMAIN: None is returned
            /\ lastOp' = Op("get_domain_by_name", d, "none")
            /\ UNCHANGED <<additional_ipv4, blockdev>>
    /\ UNCHANGED <<hvVars, defined, running, md_ipv4, md_distro, macs, disks,
                   volumes, netVars>>

\* ----------------------------------------------------------- clean_up
\* The base image upstream/<distro>.qcow2 of the storage directory.
BaseImage == <<"upstream", Fedora30>>

\* create_disk(name, backing_on=distro): the backingStore of a root volume
\* is the base image; a seed volume has none.
BackingStore(file) == IF file[2] = "root" THEN {BaseImage} ELSE {}

\* Mutation: the files behind the backingStore of a disk are taken as well.
DiskFiles_WithBacking(disklist) ==
    {disklist[i].file : i \in 1..Len(disklist)}
      \cup UNION {BackingStore(disklist[i].file) : i \in 1..Len(disklist)}

\* root.findall("./devices/disk[@type='file']/source[@file]")
DiskFiles(disklist) == {disklist[i].file : i \in 1..Len(disklist)}

CleanUp(d) ==
    /\ UNCHANGED <<confVars, netObjVars, raceVars, probeVars>>
    /\ steps' = <<>>
    /\ d \in defined
    /\ dns' = remove_dns(dns, md_ipv4[d])
    /\ dhcp' = remove_dhcp(dhcp, md_ipv4[d], macs[d])
    /\ running' = running \ {d}
    /\ defined' = defined \ {d}
    /\ volumes' = volumes \ DiskFiles(disks[d])
    /\ md_ipv4' = [md_ipv4 EXCEPT ![d] = NoIface]
    /\ md_distro' = [md_distro EXCEPT ![d] = <<>>]
    /\ macs' = [macs EXCEPT ![d] = <<>>]
    /\ disks' = [disks EXCEPT ![d] = <<>>]
    /\ additional_ipv4' = [additional_ipv4 EXCEPT ![d] = <<>>]
    /\ blockdev' = [blockdev EXCEPT ![d] = 0]
    /\ lastOp' = Op("clean_up", d, "returned")
    /\ UNCHANGED hvVars

\* The libvirt calls of clean_up, in the order of its statements.  None is
\* wrapped in try/except: the first one that raises libvirtError ends
\* clean_up, and the error reaches the caller.
CleanUpCalls == <<"remove_domain_from_network", "destroy", "undefineFlags",
                  "refresh", "delete">>

CallIndex(call) == CHOOSE i \in 1..Len(CleanUpCalls) : CleanUpCalls[i] = call

\* Mutation: every call but the failing one runs.
Done_BestEffort(at, call) == call # at

\* Whether clean_up ran `call` to its end when `at` is the call that raised.
Done(at, call) == CallIndex(call) < CallIndex(at)

\* The calls clean_up completed before `at` raised; destroy() is called on a
\* domain that is not shut off only.
CompletedCalls(d, at) ==
    SelectSeq(CleanUpCalls,
              LAMBDA c : Done(at, c) /\ (c = "destroy" => d \in running))

\* clean_up(domain) with libvirtError raised by the call `at`.  A failing
\* retraction stopped before its first update or after the DNS pass
\* (`passes`); a failing delete() is the one of the disk file number `k`
\* of the definition, the files before it are deleted.
CleanUpRaises(d, at, passes, k) ==
    /\ UNCHANGED <<confVars, netObjVars, raceVars, probeVars>>
    /\ d \in defined
    /\ at = "destroy" => d \in running
    /\ at = "delete" => k \in 1..Len(disks[d]) /\ disks[d][k].file \in volumes
    /\ at # "delete" => k = 1
    /\ at # "remove_domain_from_network" => passes = 0
    /\ dns' = IF Done(at, "remove_domain_from_network") \/ passes = 1
              THEN remove_dns(dns, md_ipv4[d]) ELSE dns
    /\ dhcp' = IF Done(at, "remove_domain_from_network")
               THEN remove_dhcp(dhcp, md_ipv4[d], macs[d]) ELSE dhcp
    /\ running' = IF Done(at, "destroy") THEN running \ {d} ELSE running
    /\ IF Done(at, "undefineFlags")
       THEN /\ defined' = defined \ {d}
            /\ md_ipv4' = [md_ipv4 EXCEPT ![d] = NoIface]
            /\ md_distro' = [md_distro EXCEPT ![d] = <<>>]
            /\ macs' = [macs EXCEPT ![d] = <<>>]
            /\ disks' = [disks EXCEPT ![d] = <<>>]
            /\ additional_ipv4' = [additional_ipv4 EXCEPT ![d] = <<>>]
            /\ blockdev' = [blockdev EXCEPT ![d] = 0]
       ELSE UNCHANGED <<defined, md_ipv4, md_distro, macs, disks, additional_ipv4,
                        blockdev>>
    /\ volumes' = IF Done(at, "refresh")
                  THEN volumes \ {disks[d][i].file : i \in 1..(k - 1)}
                  ELSE volumes
    /\ steps' = CompletedCalls(d, at)
    /\ lastOp' = Op("clean_up", d, "raised")
    /\ UNCHANGED hvVars

\* ------------------------------------------------------------ reachable
\* Failed attempts of one reachable() call are counted up to this number;
\* the loop itself has no limit.
MaxAttempts == 3

\* What the peer at port 22 does: refuse the connection, be unreachable,
\* reset the connection at the read, close it without data, send the banner
\* of another service, send bytes that are not UTF-8 (telnet option
\* negotiation starts with the byte 0xff), or send an SSH banner.
Services == {"refused", "unreachable", "reset", "closed", "other", "telnet", "ssh"}

\* asyncio.open_connection raises ConnectionRefusedError or another OSError
ConnectRaises(s) == s \in {"refused", "unreachable"}

\* reader.read(10) raises ConnectionResetError
ReadRaises(s) == s = "reset"

\* reader.read(10): up to ten bytes of what the peer sent
Received(s) ==
    CASE s = "ssh" -> <<"S", "S", "H", "-", "2", ".", "0", "-", "O", "p">>
      [] s = "other" -> <<"2", "2", "0", " ", "F", "T", "P">>
      [] s = "telnet" -> <<"0xff", "0xfd", "0x18">>
      [] OTHER -> <<>>

\* data.decode(): UnicodeDecodeError on a byte that starts no UTF-8 sequence
DecodeRaises(data) == \E i \in 1..Len(data) : data[i] \in {"0xff", "0xfd"}

SshPrefix == <<"S", "S", "H">>

NoProbes == [d \in Domains |-> [pc |-> "idle", attempts |-> 0]]

\* The loop body ended without return: the next iteration of `while True`.
Retry(p) ==
    [pc |-> "connecting",
     attempts |-> IF p.attempts < MaxAttempts THEN p.attempts + 1 ELSE p.attempts]

\* reachable() is called: the coroutine stands at its first open_connection.
Reachable(d) ==
    /\ UNCHANGED <<confVars, netObjVars, raceVars>>
    /\ steps' = <<>>
    /\ d \in defined
    /\ probe[d].pc \in {"idle", "returned", "raised"}
    /\ probe' = [probe EXCEPT ![d] = [pc |-> "connecting", attempts |-> 0]]
    /\ lastOp' = Op("reachable", d, "awaiting")
    /\ UNCHANGED <<hvVars, domVars, volumes, netVars, service>>

\* await asyncio.open_connection(str(self.ipv4.ip), 22): self.ipv4 is None
\* on a domain without address and the attribute access raises
\* AttributeError, which the except clause does not catch; OSError and
\* ConnectionRefusedError are caught and the loop goes on.
OpenConnection(d) ==
    /\ UNCHANGED <<confVars, netObjVars, raceVars>>
    /\ steps' = <<>>
    /\ probe[d].pc = "connecting"
    /\ IF d \notin defined \/ md_ipv4[d] = NoIface
       THEN /\ probe' = [probe EXCEPT ![d].pc = "raised"]
            /\ lastOp' = Op("reachable", d, "raised")
       ELSE IF ConnectRaises(service[d])
       THEN /\ probe' = [probe EXCEPT ![d] = Retry(@)]
            /\ lastOp' = Op("reachable", d, "awaiting")
       ELSE /\ probe' = [probe EXCEPT ![d].pc = "reading"]
            /\ lastOp' = Op("reachable", d, "awaiting")
    /\ UNCHANGED <<hvVars, domVars, volumes, netVars, service>>

\* data = await reader.read(10); data.decode().startswith("SSH"): return on
\* an SSH banner, the next iteration on other text or a caught OSError,
\* UnicodeDecodeError out of the coroutine on bytes that do not decode.
ReaderRead(d) ==
    /\ UNCHANGED <<confVars, netObjVars, raceVars>>
    /\ steps' = <<>>
    /\ probe[d].pc = "reading"
    /\ IF ReadRaises(service[d])
       THEN /\ probe' = [probe EXCEPT ![d] = Retry(@)]
            /\ lastOp' = Op("reachable", d, "awaiting")
       ELSE IF DecodeRaises(Received(service[d]))
       THEN /\ probe' = [probe EXCEPT ![d].pc = "raised"]
            /\ lastOp' = Op("reachable", d, "raised")
       ELSE IF startswith(Received(service[d]), SshPrefix)
       THEN /\ probe' = [probe EXCEPT ![d].pc = "returned"]
            /\ lastOp' = Op("reachable", d, "returned")
       ELSE /\ probe' = [probe EXCEPT ![d] = Retry(@)]
            /\ lastOp' = Op("reachable", d, "awaiting")
    /\ UNCHANGED <<hvVars, domVars, volumes, netVars, service>>

\* The peer changes what it does (the guest boots, sshd starts or stops).
ServiceChanges(d, s) ==
    /\ UNCHANGED <<confVars, netObjVars, raceVars>>
    /\ s # service[d]
    /\ service' = [service EXCEPT ![d] = s]
    /\ UNCHANGED <<hvVars, domVars, volumes, netVars, probe, lastOp, steps>>

\* ------------------------------------------- strings and config values
\* A string is the sequence of its characters.
Lower == {"a", "b", "c", "d", "e", "f", "g", "h", "i", "j", "k", "l", "m",
          "n", "o", "p", "q", "r", "s", "t", "u", "v", "w", "x", "y", "z"}
Upper == {"A", "B", "C", "D", "E", "F", "G", "H", "I", "J", "K", "L", "M",
          "N", "O", "P", "Q", "R", "S", "T", "U", "V", "W", "X", "Y", "Z"}
Digit == {"0", "1", "2", "3", "4", "5", "6", "7", "8", "9"}

\* `$` without re.MULTILINE: the end of the string, or just before a
\* newline that is the last character.
AtEnd(str, pos) ==
    \/ pos = Len(str) + 1
    \/ (pos = Len(str) /\ str[pos] = "\n")

\* Mutation: the first character may be any character of the name class.
MatchUsername_AnyFirst(str) ==
    /\ Len(str) >= 2
    /\ str[1] \in Lower \cup Digit \cup {"_", "-"}
    /\ \E n \in 1..32 :
          /\ n + 1 <= Len(str)
          /\ \A i \in 2..(n + 1) : str[i] \in Lower \cup Digit \cup {"_", "-"}
          /\ AtEnd(str, n + 2)

\* re.match("[a-z_][a-z0-9_-]{1,32}$", username)
MatchUsername(str) ==
    /\ Len(str) >= 2
    /\ str[1] \in Lower \cup {"_"}
    /\ \E n \in 1..32 :
          /\ n + 1 <= Len(str)
          /\ \A i \in 2..(n + 1) : str[i] \in Lower \cup Digit \cup {"_", "-"}
          /\ AtEnd(str, n + 2)

\* re.compile(r"^[\.a-z0-9]+$", re.IGNORECASE).match(value)
MatchFqdn(str) ==
    \E n \in 1..Len(str) :
        /\ \A i \in 1..n : str[i] \in Lower \cup Upper \cup Digit \cup {"."}
        /\ AtEnd(str, n + 1)

\* Values of a configuration mapping, and the marker of a missing key.
VStr(str) == [t |-> "str", s |-> str, n |-> 0, l |-> <<>>]
VInt(n) == [t |-> "int", s |-> <<>>, n |-> n, l |-> <<>>]
VList(l) == [t |-> "list", s |-> <<>>, n |-> 0, l |-> l]
Absent == [t |-> "absent", s |-> <<>>, n |-> 0, l |-> <<>>]

\* Python truth value of a configuration value.
Truthy(v) ==
    CASE v.t = "str" -> v.s # <<>>
      [] v.t = "int" -> v.n # 0
      [] v.t = "list" -> v.l # <<>>
      [] OTHER -> FALSE

Keys == {"groups", "memory", "python_interpreter", "root_password", "username",
         "vcpus", "default_nic_model", "bootcmd", "ssh_key_file", "fqdn"}

Root == <<"r", "o", "o", "t">>

\* getpass.getuser()
OsUser == Root

\* The hardcoded defaults of configure_domain.
Defaults ==
    [k \in Keys |->
        CASE k = "groups" -> VList(<<>>)
          [] k = "memory" -> VInt(768)
          [] k = "python_interpreter" -> VStr(<<"/usr/bin/python3">>)
          [] k = "root_password" -> VStr(Root)
          [] k = "username" -> VStr(OsUser)
          [] k = "vcpus" -> VInt(1)
          [] k = "default_nic_model" -> VStr(<<"virtio">>)
          [] k = "bootcmd" -> VList(<<>>)
          [] OTHER -> Absent]

\* Mutation: every value of the layer replaces the earlier one.
Merge_Unconditional(cfg, layer) ==
    [k \in Keys |-> IF layer[k] # Absent THEN layer[k] ELSE cfg[k]]

\* for k, v in layer.items(): if v: config[k] = v
Merge(cfg, layer) ==
    [k \in Keys |-> IF layer[k] # Absent /\ Truthy(layer[k]) THEN layer[k] ELSE cfg[k]]

\* ------------------------------------------------------ LibvirtDomain
None == [set |-> FALSE, s |-> <<>>]
Just(str) == [set |-> TRUE, s |-> str]

NoUsers == [set |-> FALSE, name |-> <<>>, ssh_authorized_keys |-> None]

\* LibvirtDomain.__init__ on a domain without metadata.
FreshDomain ==
    [ md_username |-> None, md_fqdn |-> None, md_root_password |-> None,
      md_python_interpreter |-> None, md_groups |-> <<>>,
      ud_users |-> NoUsers, ud_fqdn |-> None, ud_ssh_authorized_keys |-> None,
      ud_password |-> None, ud_bootcmd |-> <<>>,
      ssh_key |-> None, memory |-> 0, vcpus |-> 0, default_nic_model |-> None ]

\* Key files: two readable ones, any other path raises IOError.
Key1 == <<"k1">>
Key2 == <<"k2">>
Readable(file) == file \in {Key1, Key2}
FileContent(file) == <<"ssh-rsa">> \o file

\* Mutation: the user entry is left as it is.
load_ssh_key_file_TopOnly(dm, file) ==
    LET key == Just(FileContent(file)) IN
    [dm EXCEPT !.ssh_key = key, !.ud_ssh_authorized_keys = key]

\* load_ssh_key_file, on a readable file
load_ssh_key_file(dm, file) ==
    LET key == Just(FileContent(file)) IN
    [dm EXCEPT !.ssh_key = key,
               !.ud_ssh_authorized_keys = key,
               !.ud_users = IF @.set THEN [@ EXCEPT !.ssh_authorized_keys = key] ELSE @]

\* root_password setter
set_root_password(dm, value) ==
    [dm EXCEPT !.ud_password = Just(value), !.md_root_password = Just(value)]

\* username setter, past the pattern test
set_username(dm, username) ==
    [dm EXCEPT !.ud_users = [set |-> TRUE, name |-> username,
                             ssh_authorized_keys |-> dm.ssh_key],
               !.md_username = Just(username)]

\* fqdn setter: the values it logs and drops
FqdnRejected(value) == value = <<>> \/ ~MatchFqdn(value)

set_fqdn(dm, value) ==
    IF FqdnRejected(value) THEN dm
    ELSE [dm EXCEPT !.ud_fqdn = Just(value), !.md_fqdn = Just(value)]

\* configure_domain: the setters in the order of lines 131-141; the record
\* holds the domain it leaves and how it ended.
Ended(dm, outcome) == [domain |-> dm, outcome |-> outcome]

configure_domain(dm, cfg) ==
    LET d1 == [dm EXCEPT !.md_groups = cfg["groups"].l] IN
    IF cfg["ssh_key_file"] = Absent \/ ~Readable(cfg["ssh_key_file"].s)
    THEN Ended(d1, "raised")
    ELSE
    LET d2 == load_ssh_key_file(d1, cfg["ssh_key_file"].s)
        d3 == [d2 EXCEPT !.memory = cfg["memory"].n]
        d4 == [d3 EXCEPT !.md_python_interpreter = Just(cfg["python_interpreter"].s)]
        d5 == set_root_password(d4, cfg["root_password"].s)
    IN
    IF ~MatchUsername(cfg["username"].s)
    THEN Ended(d5, "raised")
    ELSE
    LET d6 == set_username(d5, cfg["username"].s)
        d7 == [d6 EXCEPT !.vcpus = cfg["vcpus"].n]
        d8 == [d7 EXCEPT !.default_nic_model = Just(cfg["default_nic_model"].s)]
        d9 == [d8 EXCEPT !.ud_bootcmd = cfg["bootcmd"].l]
    IN
    IF cfg["fqdn"] # Absent THEN Ended(set_fqdn(d9, cfg["fqdn"].s), "returned")
    ELSE Ended(d9, "returned")

sessionVars == <<gateway, last_free_ipv4, defined, running, md_ipv4, md_distro, macs,
                 disks, volumes, dns, dhcp, additional_ipv4, blockdev, ret, handed,
                 steps, hv_network, network_obj, flows, serialized, probe, service>>

ConfigureDomain ==
    /\ LET merged == Merge(Merge(Defaults, distro_config), user_config)
           result == configure_domain(domain, merged)
       IN /\ config' = merged
          /\ domain' = result.domain
          /\ lastOp' = Op("configure_domain", "vm1", result.outcome)
    /\ UNCHANGED <<sessionVars, distro_config, user_config, arg>>

SetUsername ==
    /\ IF MatchUsername(arg)
       THEN /\ domain' = set_username(domain, arg)
            /\ lastOp' = Op("username", "vm1", "returned")
       ELSE /\ domain' = domain
            /\ lastOp' = Op("username", "vm1", "raised")
    /\ UNCHANGED <<sessionVars, distro_config, user_config, config, arg>>

SetFqdn ==
    /\ domain' = set_fqdn(domain, arg)
    /\ lastOp' = Op("fqdn", "vm1", "returned")
    /\ UNCHANGED <<sessionVars, distro_config, user_config, config, arg>>

\* load_ssh_key_file(ssh_key_file) called by itself: IOError on a file that
\* cannot be read, before anything is assigned.
LoadSshKeyFile(file) ==
    /\ arg' = file
    /\ IF Readable(file)
       THEN /\ domain' = load_ssh_key_file(domain, file)
            /\ lastOp' = Op("load_ssh_key_file", "vm1", "returned")
       ELSE /\ domain' = domain
            /\ lastOp' = Op("load_ssh_key_file", "vm1", "raised")
    /\ UNCHANGED <<sessionVars, distro_config, user_config, config>>

\* domain.username = username
UsernameSetter(username) ==
    /\ arg' = username
    /\ IF MatchUsername(username)
       THEN /\ domain' = set_username(domain, username)
            /\ lastOp' = Op("username", "vm1", "returned")
       ELSE /\ domain' = domain
            /\ lastOp' = Op("username", "vm1", "raised")
    /\ UNCHANGED <<sessionVars, distro_config, user_config, config>>

\* ------------------------------------------------------ specification
\* Host entries an existing network may carry from an earlier run.
StaleDns == {<<>>, <<[ip |-> network.base + 6, names |-> <<"old">>]>>}
StaleDhcp == {<<>>, <<[ip |-> network.base + 6, mac |-> "m1"]>>}

Providers == {"", "nocloud", "openstack"}

\* A new session on a hypervisor without domains.
InitSession ==
    /\ last_free_ipv4 = NoIface
    /\ defined = {}
    /\ running = {}
    /\ md_ipv4 = [d \in Domains |-> NoIface]
    /\ md_distro = [d \in Domains |-> <<>>]
    /\ macs = [d \in Domains |-> <<>>]
    /\ disks = [d \in Domains |-> <<>>]
    /\ additional_ipv4 = [d \in Domains |-> <<>>]
    /\ blockdev = [d \in Domains |-> 0]
    /\ ret = NoIface
    /\ handed = <<>>
    /\ lastOp = Op("__init__", "", "returned")
    /\ steps = <<>>
    /\ probe = NoProbes
    /\ service = [d \in Domains |-> "refused"]

\* The same, with a storage pool that holds no file.
InitState ==
    /\ InitSession
    /\ volumes = {}

\* No configure_domain call is part of the session specifications.
NoConfig == [k \in Keys |-> Absent]

\* init_network has run: the network exists and is active, the session
\* holds its object and the gateway read from its descriptor.
ActiveNetwork(ip) == [exists |-> TRUE, active |-> TRUE, ip |-> ip]

InitNetworkDone ==
    /\ hv_network = ActiveNetwork(gateway)
    /\ network_obj = TRUE

\* No allocation flow is under way.
NoFlows == [d \in Domains |-> [pc |-> "idle", ip |-> NoIface]]

InitConfigIdle ==
    /\ flows = NoFlows
    /\ serialized = TRUE
    /\ domain = FreshDomain
    /\ distro_config = NoConfig
    /\ user_config = NoConfig
    /\ config = NoConfig
    /\ arg = <<>>

\* The allocator session: domains are created, persist an address and are
\* destroyed while get_free_ipv4 is called, on each of the networks.
Init ==
    /\ gateway \in Gateways
    /\ dns = <<>>
    /\ dhcp = <<>>
    /\ InitNetworkDone
    /\ InitState
    /\ InitConfigIdle

Next ==
    \/ GetFreeIpv4
    \/ NewSession
    \/ \E d \in Domains : CreateDomain(d, Fedora30)
    \/ \E d \in Domains, v \in AddressInputs : SetIpv4(d, v)
    \/ \E d \in Domains : CleanUp(d)

Spec == Init /\ [][Next]_vars

\* Registration on one network that may carry entries of an earlier run:
\* domains get interfaces and an address, are started, retracted, destroyed.
InitNet ==
    /\ gateway = IPv4Interface(513, 29)
    /\ dns \in StaleDns
    /\ dhcp \in StaleDhcp
    /\ InitNetworkDone
    /\ InitState
    /\ InitConfigIdle

NextNet ==
    \/ \E d \in Domains : CreateDomain(d, Fedora30)
    \/ \E d \in Domains, v \in AddressInputs : SetIpv4(d, v)
    \/ \E d \in Domains, m \in MacPool : AttachNetwork(d, ArgNone, m)
    \/ \E d \in Domains, p \in Providers : Start(d, p)
    \/ \E d \in Domains : RemoveDomainFromNetwork(d)
    \/ \E d \in Domains : CleanUp(d)

SpecNet == InitNet /\ [][NextNet]_vars

\* ------------------------------------------------------- init_network
NoNetwork == [exists |-> FALSE, active |-> FALSE, ip |-> NoIface]

\* ipaddress.ip_network(network_cidr): its first address and prefix length.
Cidr(base, p) == [base |-> base, prefixlen |-> p]

\* Mutation: the gateway is network[0], the network address.
create_network_First(network_cidr) ==
    [exists |-> TRUE, active |-> TRUE,
     ip |-> IPv4Interface(network_cidr.base, network_cidr.prefixlen)]

\* create_network: networkCreateXML defines and starts the network, with
\* address network[1] and the netmask of the cidr.
create_network(network_cidr) ==
    [exists |-> TRUE, active |-> TRUE,
     ip |-> IPv4Interface(network_cidr.base + 1, network_cidr.prefixlen)]

\* networkLookupByName: the attribute is set when the lookup succeeds and
\* keeps its value on VIR_ERR_NO_NETWORK.
LookupNetwork(obj, net) == IF net.exists THEN TRUE ELSE obj

InitNetwork(network_cidr) ==
    /\ UNCHANGED <<confVars, raceVars, probeVars>>
    /\ steps' = <<>>
    /\ LET looked == LookupNetwork(network_obj, hv_network)
           net == IF ~looked THEN create_network(network_cidr) ELSE hv_network
       IN  IF ~net.exists
           THEN \* isActive() on the object of a network that is gone
                /\ network_obj' = looked
                /\ lastOp' = Op("init_network", "", "raised")
                /\ UNCHANGED <<hv_network, gateway>>
           ELSE /\ network_obj' = TRUE
                /\ hv_network' = [net EXCEPT !.active = TRUE]
                /\ gateway' = net.ip
                /\ lastOp' = Op("init_network", "", "returned")
    /\ UNCHANGED <<last_free_ipv4, ret, handed, domVars, volumes, netVars>>

\* LibvirtHypervisor(conn): a new session object, before init_network.
NewHypervisor ==
    /\ UNCHANGED <<confVars, raceVars, probeVars>>
    /\ steps' = <<>>
    /\ SessionReset
    /\ network_obj' = FALSE
    /\ gateway' = NoIface
    /\ lastOp' = Op("__init__", "", "returned")
    /\ UNCHANGED <<hv_network, defined, running, md_ipv4, md_distro, macs, disks,
                   volumes, netVars>>

\* The network a new session may find: none, or one of the name, active or
\* not, with any of the gateways.
FoundNetworks ==
    {NoNetwork} \cup {[exists |-> TRUE, active |-> a, ip |-> g] : a \in BOOLEAN, g \in Gateways}

Cidrs == {Cidr(512, 24), Cidr(512, 29), Cidr(528, 29)}

\* A session from its construction on: init_network with any cidr, then
\* allocation and domains with an address, and further sessions.
InitFresh ==
    /\ hv_network \in FoundNetworks
    /\ network_obj = FALSE
    /\ gateway = NoIface
    /\ dns = <<>>
    /\ dhcp = <<>>
    /\ InitState
    /\ InitConfigIdle

NextFresh ==
    \/ NewHypervisor
    \/ \E c \in Cidrs : InitNetwork(c)
    \/ (gateway # NoIface /\ GetFreeIpv4)
    \/ \E d \in OneDomain : CreateDomain(d, Fedora30)
    \/ (gateway # NoIface /\ \E d \in OneDomain, v \in {ret} \ {NoIface} : SetIpv4(d, v))
    \/ \E d \in OneDomain : CleanUp(d)

SpecFresh == InitFresh /\ [][NextFresh]_vars

\* A new session on the network 192.0.2.0/29 without host entries, in which
\* one domain is followed.
InitOneNet ==
    /\ gateway = IPv4Interface(513, 29)
    /\ dns = <<>>
    /\ dhcp = <<>>
    /\ InitNetworkDone
    /\ InitState
    /\ InitConfigIdle

\* The disks of a domain: it gets a root disk and an interface with a static
\* address, is looked up again, started, destroyed.
NextDisk ==
    \/ \E d \in OneDomain, distro \in Distros : CreateDomain(d, distro)
    \/ \E d \in OneDomain, m \in MacPool : AttachNetwork(d, ArgStr(StaticAddress.ip), m)
    \/ \E d \in OneDomain : CreateDisk(d)
    \/ \E d \in OneDomain : AddRootDisk(d)
    \/ \E d \in OneDomain : GetDomainByName(d)
    \/ \E d \in OneDomain, p \in Providers : Start(d, p)
    \/ \E d \in OneDomain : CleanUp(d)

SpecDisk == InitOneNet /\ [][NextDisk]_vars

\* The interfaces of one domain: it is given addresses by the allocator or
\* the user and interfaces with every kind of address argument, and is
\* looked up again.
NextNic ==
    \/ GetFreeIpv4
    \/ \E d \in OneDomain : CreateDomain(d, Fedora30)
    \/ \E d \in OneDomain, v \in AddressInputs : SetIpv4(d, v)
    \/ \E d \in OneDomain, a \in AttachArgs, m \in MacPool : AttachNetwork(d, a, m)
    \/ \E d \in OneDomain : GetDomainByName(d)
    \/ \E d \in OneDomain : CleanUp(d)

SpecNic == InitOneNet /\ [][NextNic]_vars

\* The host tables under direct calls: entries are set for two addresses,
\* two names and the MAC addresses, and the entries of a domain retracted.
HostNames == {<<"vm1", "">>, <<"vm2", "vm2.example.com">>}

HostMacs == {"m1", "m2"}

NextHosts ==
    \/ \E a \in {StaticAddress, OtherAddress}, n \in HostNames : SetDnsEntry(a, n)
    \/ \E a \in {StaticAddress, OtherAddress}, m \in HostMacs : SetDhcpEntry(a, m)
    \/ \E d \in OneDomain : CreateDomain(d, Fedora30)
    \/ \E d \in OneDomain : SetIpv4(d, StaticAddress)
    \/ \E d \in OneDomain : RemoveDomainFromNetwork(d)

SpecHosts == InitOneNet /\ [][NextHosts]_vars

\* Retraction among the entries of other hosts: the network carries up to
\* two DNS and two DHCP hosts of an earlier run, in any order; a domain gets
\* one of two addresses and interfaces, is registered and retracted.
StaleDnsHosts ==
    {[ip |-> StaticAddress.ip, names |-> <<"old">>],
     [ip |-> OtherAddress.ip, names |-> <<"other">>]}

StaleDhcpHosts ==
    {[ip |-> StaticAddress.ip, mac |-> "m1"], [ip |-> OtherAddress.ip, mac |-> "m2"]}

UpToTwo(S) == {<<>>} \cup {<<x>> : x \in S} \cup {<<x, y>> : x \in S, y \in S}

InitRetract ==
    /\ gateway = IPv4Interface(513, 29)
    /\ dns \in UpToTwo(StaleDnsHosts)
    /\ dhcp \in UpToTwo(StaleDhcpHosts)
    /\ InitNetworkDone
    /\ InitState
    /\ InitConfigIdle

NextRetract ==
    \/ \E d \in OneDomain : CreateDomain(d, Fedora30)
    \/ \E d \in OneDomain, v \in {StaticAddress, OtherAddress} : SetIpv4(d, v)
    \/ \E d \in OneDomain, m \in HostMacs : AttachNetwork(d, ArgNone, m)
    \/ \E d \in OneDomain : AddDomainToNetwork(d)
    \/ \E d \in OneDomain : RemoveDomainFromNetwork(d)

SpecRetract == InitRetract /\ [][NextRetract]_vars

\* Two domains next to each other on a pool that holds the base image: each
\* gets an address (the same or another one than its neighbour), the
\* interface the hypervisor gives it and is started; the first one has a
\* root disk backed by the base image and is destroyed.
FrameAddresses ==
    [d \in Domains |-> IF d = "vm1" THEN {StaticAddress}
                       ELSE {StaticAddress, OtherAddress}]

FrameMac == [d \in Domains |-> IF d = "vm1" THEN "m1" ELSE "m2"]

InitFrame ==
    /\ gateway = IPv4Interface(513, 29)
    /\ dns = <<>>
    /\ dhcp = <<>>
    /\ InitNetworkDone
    /\ InitSession
    /\ volumes = {BaseImage}
    /\ InitConfigIdle

NextFrame ==
    \/ \E d \in Domains : CreateDomain(d, Fedora30)
    \/ \E d \in Domains : \E v \in FrameAddresses[d] : SetIpv4(d, v)
    \/ \E d \in Domains : AttachNetwork(d, ArgNone, FrameMac[d])
    \/ \E d \in OneDomain : CreateDisk(d)
    \/ \E d \in OneDomain : AddRootDisk(d)
    \/ \E d \in Domains : Start(d, "")
    \/ \E d \in OneDomain : CleanUp(d)

SpecFrame == InitFrame /\ [][NextFrame]_vars

\* A domain with or without address is probed while the peer at its port 22
\* changes.  The event loop resumes a coroutine whose awaited connection or
\* read has completed, so the two steps of the loop are weakly fair.
NextProbe ==
    \/ \E d \in OneDomain : CreateDomain(d, Fedora30)
    \/ \E d \in OneDomain : SetIpv4(d, StaticAddress)
    \/ \E d \in OneDomain : Reachable(d)
    \/ \E d \in OneDomain : OpenConnection(d)
    \/ \E d \in OneDomain : ReaderRead(d)
    \/ \E d \in OneDomain, s \in Services : ServiceChanges(d, s)

SpecProbe ==
    /\ InitOneNet
    /\ [][NextProbe]_vars
    /\ \A d \in OneDomain : WF_vars(OpenConnection(d)) /\ WF_vars(ReaderRead(d))

\* A domain is destroyed: it gets an address, an interface and a root disk,
\* is started, and clean_up runs to its end or is stopped by a libvirtError
\* of any of its calls.
NextDestroy ==
    \/ \E d \in OneDomain : CreateDomain(d, Fedora30)
    \/ \E d \in OneDomain : SetIpv4(d, StaticAddress)
    \/ \E d \in OneDomain, m \in HostMacs : AttachNetwork(d, ArgNone, m)
    \/ \E d \in OneDomain : CreateDisk(d)
    \/ \E d \in OneDomain : AddRootDisk(d)
    \/ \E d \in OneDomain : Start(d, "")
    \/ \E d \in OneDomain : CleanUp(d)
    \/ \E d \in OneDomain, at \in SeqToSet(CleanUpCalls), passes \in 0..1, k \in 1..MaxDisks :
          CleanUpRaises(d, at, passes, k)

SpecDestroy == InitOneNet /\ [][NextDestroy]_vars

\* --------------------------------------------- concurrent allocation
\* The flow a caller runs for a domain: get_free_ipv4, whose scan and whose
\* write of the cursor other flows of the session can come between (no
\* lock is taken), then the ipv4 setter, then start().
FlowAtRest(d) ==
    \/ flows[d].pc = "idle"
    \/ (flows[d].pc = "persisted" /\ d \in running)

\* get_free_ipv4 up to the address it found: used_ips is read and the
\* network scanned against the cursor.
FlowScan(d) ==
    /\ UNCHANGED <<confVars, netObjVars, probeVars>>
    /\ steps' = <<>>
    /\ d \in defined
    /\ flows[d].pc = "idle"
    /\ serialized => \A e \in Domains \ {d} : FlowAtRest(e)
    /\ flows' = [flows EXCEPT ![d] = [pc |-> "scanned",
                                      ip |-> get_free_ipv4(last_free_ipv4, used_ips)]]
    /\ lastOp' = Op("get_free_ipv4", d, "scanned")
    /\ UNCHANGED <<serialized, hvVars, domVars, volumes, netVars>>

\* get_free_ipv4 from there: the cursor is written and the address returned.
FlowReturn(d) ==
    /\ UNCHANGED <<confVars, netObjVars, probeVars>>
    /\ steps' = <<>>
    /\ flows[d].pc = "scanned"
    /\ Len(handed) < MaxAllocs
    /\ last_free_ipv4' = AdvanceCursor(last_free_ipv4, flows[d].ip)
    /\ ret' = flows[d].ip
    /\ handed' = IF flows[d].ip # NoIface THEN Append(handed, flows[d].ip.ip) ELSE handed
    /\ flows' = [flows EXCEPT ![d].pc = "allocated"]
    /\ lastOp' = Op("get_free_ipv4", d, "returned")
    /\ UNCHANGED <<serialized, gateway, domVars, volumes, netVars>>

\* domain.ipv4 = the address the flow was given
FlowPersist(d) ==
    /\ UNCHANGED <<confVars, netObjVars, probeVars>>
    /\ steps' = <<>>
    /\ d \in defined
    /\ flows[d].pc = "allocated"
    /\ flows[d].ip # NoIface
    /\ md_ipv4' = [md_ipv4 EXCEPT ![d] = flows[d].ip]
    /\ flows' = [flows EXCEPT ![d].pc = "persisted"]
    /\ lastOp' = Op("ipv4", d, "returned")
    /\ UNCHANGED <<serialized, hvVars, defined, running, md_distro, macs, disks,
                   additional_ipv4, blockdev, volumes, netVars>>

\* Two domains get an interface and run their flows in one session, either
\* one flow at a time or interleaved; between flows a new session may begin.
InitRace ==
    /\ gateway = IPv4Interface(513, 29)
    /\ dns = <<>>
    /\ dhcp = <<>>
    /\ InitNetworkDone
    /\ InitState
    /\ domain = FreshDomain
    /\ distro_config = NoConfig
    /\ user_config = NoConfig
    /\ config = NoConfig
    /\ arg = <<>>
    /\ flows = NoFlows
    /\ serialized \in BOOLEAN

NextRace ==
    \/ \E d \in Domains : CreateDomain(d, Fedora30)
    \/ \E d \in Domains, m \in MacPool : AttachNetwork(d, ArgNone, m)
    \/ \E d \in Domains : FlowScan(d)
    \/ \E d \in Domains : FlowReturn(d)
    \/ \E d \in Domains : FlowPersist(d)
    \/ \E d \in Domains : (flows[d].pc = "persisted" /\ Start(d, ""))
    \/ ((\A d \in Domains : FlowAtRest(d)) /\ NewSession)

SpecRace == InitRace /\ [][NextRace]_vars

\* The life of a domain: it is defined, gets an address and an interface, is
\* started, taken off the network and put on it again, looked up, destroyed,
\* and its LibvirtDomain object is used after that.
NextLife ==
    \/ \E d \in OneDomain : CreateDomain(d, Fedora30)
    \/ \E d \in OneDomain, v \in AddressInputs : SetIpv4(d, v)
    \/ \E d \in OneDomain, m \in MacPool : AttachNetwork(d, ArgNone, m)
    \/ \E d \in OneDomain, p \in Providers : Start(d, p)
    \/ \E d \in OneDomain, p \in Providers : StartUndefined(d, p)
    \/ \E d \in OneDomain : RemoveDomainFromNetwork(d)
    \/ \E d \in OneDomain : AddDomainToNetwork(d)
    \/ \E d \in OneDomain : GetDomainByName(d)
    \/ \E d \in OneDomain : CleanUp(d)

SpecLife == InitOneNet /\ [][NextLife]_vars

\* The configuration of one domain: configure_domain on layers drawn at the
\* start, and the username and fqdn setters on a string drawn at the start.
Alice2 == <<"a", "l", "i", "c", "e", "-", "2">>
AliceCap == <<"A", "l", "i", "c", "e">>
TwoAlice == <<"2", "a", "l", "i", "c", "e">>
HostExampleCom == <<"h", "o", "s", "t", ".", "e", "x", "a", "m", "p", "l", "e", ".", "c", "o", "m">>
BadHost == <<"b", "a", "d", "_", "h", "o", "s", "t", "!">>

MaxStrLen == 3

Alphabet == {"a", "A", "2", "_", "-", ".", "!", "\n"}

ShortStrings == UNION {[1..n -> Alphabet] : n \in 0..MaxStrLen}

Pad(n) == [i \in 1..n |-> "a"]

\* Strings around the length limit of the username pattern.
LongStrings ==
    UNION {{Pad(n), Pad(n) \o <<"\n">>, <<"-">> \o Pad(n - 1)} : n \in 32..34}

Strings == ShortStrings \cup LongStrings \cup {Alice2, AliceCap, TwoAlice, HostExampleCom, BadHost}

Layer(username, memory, fqdn, groups, ssh_key_file) ==
    [k \in Keys |->
        CASE k = "username" -> username
          [] k = "memory" -> memory
          [] k = "fqdn" -> fqdn
          [] k = "groups" -> groups
          [] k = "ssh_key_file" -> ssh_key_file
          [] OTHER -> Absent]

DistroConfigs ==
    { Layer(u, m, f, Absent, kf) :
        u \in {Absent, VStr(<<>>), VStr(<<"d", "v">>)},
        m \in {Absent, VInt(0), VInt(512)},
        f \in {Absent, VStr(<<"d", ".", "e", "x">>)},
        kf \in {Absent, VStr(Key1)} }

UserConfigs ==
    { Layer(u, m, f, g, kf) :
        u \in {Absent, VStr(<<>>), VStr(Alice2), VStr(AliceCap)},
        m \in {Absent, VInt(0), VInt(1024)},
        f \in {Absent, VStr(<<>>), VStr(HostExampleCom), VStr(BadHost)},
        g \in {Absent, VList(<<>>), VList(<<"adm">>)},
        kf \in {Absent, VStr(Key2), VStr(<<"missing">>)} }

BasicConfigs == {NoConfig, Layer(Absent, Absent, Absent, Absent, VStr(Key1))}

InitDomain ==
    /\ gateway = IPv4Interface(513, 24)
    /\ dns = <<>>
    /\ dhcp = <<>>
    /\ InitNetworkDone
    /\ InitState
    /\ domain = FreshDomain
    /\ config = NoConfig
    /\ flows = NoFlows
    /\ serialized = TRUE
    /\ \/ (distro_config \in DistroConfigs /\ user_config \in UserConfigs /\ arg = <<>>)
       \/ (distro_config = NoConfig /\ user_config \in BasicConfigs /\ arg \in Strings)

NextDomain ==
    \/ ConfigureDomain
    \/ SetUsername
    \/ SetFqdn

SpecDomain == InitDomain /\ [][NextDomain]_vars

\* The user entry of one domain: keys are loaded and usernames set in any
\* order and number, by themselves and through configure_domain.
Bob == <<"b", "o", "b">>
Carol == <<"c", "a", "r", "o", "l">>
KeyFiles == {Key1, Key2, <<"missing">>}
Usernames == {Alice2, Bob, Carol, AliceCap}

InitUser ==
    /\ gateway = IPv4Interface(513, 24)
    /\ dns = <<>>
    /\ dhcp = <<>>
    /\ InitNetworkDone
    /\ InitState
    /\ domain = FreshDomain
    /\ config = NoConfig
    /\ flows = NoFlows
    /\ serialized = TRUE
    /\ distro_config = NoConfig
    /\ user_config \in BasicConfigs
    /\ arg = <<>>

NextUser ==
    \/ \E file \in KeyFiles : LoadSshKeyFile(file)
    \/ \E username \in Usernames : UsernameSetter(username)
    \/ ConfigureDomain

SpecUser == InitUser /\ [][NextUser]_vars

\* ===================================================== allocator claims
Allocated == lastOp.op = "get_free_ipv4" /\ ret # NoIface

PersistedIps == {md_ipv4[d].ip : d \in {e \in defined : md_ipv4[e] # NoIface}}

NetworkAddresses == network.base .. (network.base + NumAddresses(network.prefixlen) - 1)

\* Addresses of the network with host octet >= 5 outside the used set.
FreeAddresses == {a \in NetworkAddresses : HostOctet(a) >= 5 /\ a \notin PersistedIps \cup {gateway.ip}}

\* ... and strictly above the cursor.
Candidates == {a \in FreeAddresses : last_free_ipv4 = NoIface \/ a > last_free_ipv4.ip}

Lowest(S) == CHOOSE a \in S : \A b \in S : a <= b

\* C1: get_free_ipv4 never returns the gateway address nor an address that
\* is, at the time of the call, in the persisted ipv4 metadata of a defined
\* domain.
C1_NeverGatewayNorPersisted ==
    Allocated => ret.ip # gateway.ip /\ ret.ip \notin PersistedIps

\* C1 witness: on the network whose gateway is .5, with .6 persisted by a
\* domain, the first call of the session returned .7.
C1_Witness ==
    /\ Allocated
    /\ HostOctet(gateway.ip) >= 5
    /\ handed = <<ret.ip>>
    /\ \E d \in defined : md_ipv4[d] # NoIface /\ gateway.ip < md_ipv4[d].ip
                          /\ md_ipv4[d].ip < ret.ip

\* C2: every get_free_ipv4 call returns the lowest address of the network
\* with host octet >= 5, above the cursor and outside the used set, and
\* moves the cursor to it (and returns nothing, cursor unmoved, when there is
\* none); on 192.0.2.0/24 with gateway .1 and nothing persisted the first
\* call returns .5 and the next one .6.
C2_ReturnsLowestCandidate ==
    [][lastOp'.op = "get_free_ipv4" =>
        /\ IF Candidates = {}
           THEN ret' = NoIface /\ last_free_ipv4' = last_free_ipv4
           ELSE ret' = IPv4Interface(Lowest(Candidates), 24) /\ last_free_ipv4' = ret'
        /\ (gateway = IPv4Interface(513, 24) /\ PersistedIps = {} /\ last_free_ipv4 = NoIface)
              => ret'.ip = 517
        /\ (gateway = IPv4Interface(513, 24) /\ PersistedIps = {}
              /\ last_free_ipv4 = IPv4Interface(517, 24)) => ret'.ip = 518
    ]_vars

\* C2 witness: 192.0.2.0/24, gateway .1, nothing persisted, two calls made:
\* .5 then .6.
C2_Witness ==
    /\ gateway = IPv4Interface(513, 24)
    /\ PersistedIps = {}
    /\ handed = <<517, 518>>
    /\ Allocated
    /\ ret.ip = 518

\* C3: the addresses one session's get_free_ipv4 calls return are strictly
\* increasing, whatever was persisted or destroyed between the calls.
C3_StrictlyIncreasing ==
    \A i, j \in 1..Len(handed) : i < j => handed[i] < handed[j]

\* C3 witness: a later call returned a higher address although an address
\* handed out earlier was free at that time.
C3_Witness ==
    /\ Allocated
    /\ Len(handed) >= 2
    /\ handed[1] \in FreeAddresses

\* C4: get_free_ipv4 never returns an address whose last octet is below 5.
C4_NeverReserved ==
    Allocated => HostOctet(ret.ip) >= 5

\* C4 witness: on a network that starts at .0 the call skipped .0 to .4 and
\* returned .5.
C4_Witness ==
    /\ Allocated
    /\ HostOctet(network.base) = 0
    /\ HostOctet(ret.ip) = 5

\* C5 as stated: a call returns an address whenever some address with host
\* octet >= 5 is neither the gateway nor persisted by a defined domain.
C5_Original ==
    (lastOp.op = "get_free_ipv4" /\ FreeAddresses # {}) => ret # NoIface

\* C5 amended: a call returns nothing exactly when no address with host
\* octet >= 5 above the cursor is outside the used set.
C5_NothingOnlyIfNoneAboveCursor ==
    [][lastOp'.op = "get_free_ipv4" => (ret' = NoIface <=> Candidates = {})]_vars

\* C5 witness: a call returned nothing while an address below the cursor was
\* free.
C5_Witness ==
    /\ lastOp.op = "get_free_ipv4"
    /\ ret = NoIface
    /\ last_free_ipv4 # NoIface
    /\ \E a \in FreeAddresses : a < last_free_ipv4.ip

\* ================================================== registration claims
CountHosts(table, Test(_)) == Cardinality({i \in 1..Len(table) : Test(table[i])})

Registered(d) == lastOp.op = "start" /\ lastOp.dom = d /\ lastOp.outcome \in {"returned", "replaced"}

\* C6: the network holds at most one DNS host entry per IP and at most one
\* DHCP host entry per IP and per MAC; when start() has registered a domain
\* there is exactly one DNS entry for its IP and exactly one DHCP entry for
\* its IP and first MAC.
C6_AtMostOneEntry ==
    /\ \A i, j \in 1..Len(dns) : i # j => dns[i].ip # dns[j].ip
    /\ \A i, j \in 1..Len(dhcp) : i # j => dhcp[i].ip # dhcp[j].ip /\ dhcp[i].mac # dhcp[j].mac
    /\ \A d \in Domains : Registered(d) =>
          /\ CountHosts(dns, LAMBDA h : h.ip = md_ipv4[d].ip) = 1
          /\ CountHosts(dhcp, LAMBDA h : h.ip = md_ipv4[d].ip /\ h.mac = macs[d][1]) = 1

\* C6 witness: start() registered a domain whose address or MAC already had
\* entries in the network, and one entry of each kind is left.
C6_Witness ==
    \E d \in Domains :
        /\ lastOp = Op("start", d, "replaced")
        /\ CountHosts(dns, LAMBDA h : h.ip = md_ipv4[d].ip) = 1
        /\ CountHosts(dhcp, LAMBDA h : h.ip = md_ipv4[d].ip \/ h.mac = macs[d][1]) = 1

\* C7: after remove_domain_from_network(domain) the network has no DNS host
\* entry and no DHCP host entry with the domain's IP and no DHCP host entry
\* with one of the domain's MAC addresses, also for a domain that has MAC
\* addresses but no recorded primary address.
C7_Original ==
    \A d \in Domains : lastOp = Op("remove_domain_from_network", d, "returned") =>
        /\ md_ipv4[d] # NoIface =>
              /\ \A i \in 1..Len(dns) : dns[i].ip # md_ipv4[d].ip
              /\ \A i \in 1..Len(dhcp) : dhcp[i].ip # md_ipv4[d].ip
        /\ \A i \in 1..Len(dhcp) : dhcp[i].mac \notin SeqToSet(macs[d])

\* ================================================= configuration claims
\* The value of the last of the layers defaults, distro, user that holds a
\* truthy value for the key; the default when none does.
Resolved(k) ==
    IF Truthy(user_config[k]) THEN user_config[k]
    ELSE IF Truthy(distro_config[k]) THEN distro_config[k]
    ELSE Defaults[k]

\* C8: the merged config of configure_domain gives every key the value of
\* the last layer (defaults, distro, user) holding a truthy value for it, so
\* a truthy user value wins and a falsy user or distro value replaces
\* nothing; the values applied to the domain are the resolved ones.
C8_LastTruthyLayerWins ==
    lastOp.op = "configure_domain" =>
        /\ \A k \in Keys : config[k] = Resolved(k)
        /\ lastOp.outcome = "returned" =>
              /\ domain.md_username = Just(Resolved("username").s)
              /\ domain.memory = Resolved("memory").n
              /\ domain.md_groups = Resolved("groups").l

\* C8 witness: the user layer has an empty username and a truthy memory, the
\* distro layer a truthy username and memory: the domain got the distro's
\* username and the user's memory.
C8_Witness ==
    /\ lastOp = Op("configure_domain", "vm1", "returned")
    /\ user_config["username"] = VStr(<<>>)
    /\ Truthy(distro_config["username"])
    /\ domain.md_username = Just(distro_config["username"].s)
    /\ Truthy(user_config["memory"])
    /\ Truthy(distro_config["memory"])
    /\ domain.memory = user_config["memory"].n

NameChars == Lower \cup Digit \cup {"_", "-"}

\* The names C9 says are accepted: name characters only, 2 to 33 long, not
\* starting with a digit.
ClaimedLoginName(str) ==
    /\ Len(str) >= 2
    /\ Len(str) <= 33
    /\ \A i \in 1..Len(str) : str[i] \in NameChars
    /\ str[1] \notin Digit

WithoutFinalNewline(str) ==
    IF str # <<>> /\ str[Len(str)] = "\n" THEN SubSeq(str, 1, Len(str) - 1) ELSE str

\* The names the setter accepts: a lowercase letter or underscore, then 1 to
\* 32 name characters, then at most one final newline.
LoginName(str) ==
    LET core == WithoutFinalNewline(str) IN
    /\ Len(core) >= 2
    /\ Len(core) <= 33
    /\ core[1] \in Lower \cup {"_"}
    /\ \A i \in 2..Len(core) : core[i] \in NameChars

C10_Original ==
    [][lastOp'.op = "fqdn" =>
        /\ lastOp'.outcome = "returned"
        /\ (arg = <<>> \/ \E i \in 1..Len(arg) : arg[i] \notin Lower \cup Upper \cup Digit \cup {"."})
              => (domain'.md_fqdn = domain.md_fqdn /\ domain'.ud_fqdn = domain.ud_fqdn)
        /\ arg = HostExampleCom
              => (domain'.md_fqdn = Just(arg) /\ domain'.ud_fqdn = Just(arg))
    ]_vars

\* ========================================================= disk claims
\* C11: for each domain the device names of its attached disks form one
\* strictly ascending sequence that starts at the first slot (vda), whatever
\* the role of the disk, so no two disks of a domain have the same device
\* name, also when the domain was looked up again before a further disk (the
\* seed media of start()) was attached.
C11_Original ==
    \A d \in Domains :
        /\ disks[d] # <<>> => disks[d][1].dev = 1
        /\ \A i, j \in 1..Len(disks[d]) : i < j => disks[d][i].dev < disks[d][j].dev

\* ==================================================== interface claims
IsAddressArg(a) == a.kind \in {"iface", "str"}

\* C12: an attachNetwork call on a domain that has a primary address leaves
\* the persisted primary address unchanged and appends exactly one element
\* to the additional addresses: the argument itself, which is the static
\* address, "dhcp", or the empty marker of a call without address.  A call
\* with an address argument on a domain without primary address sets the
\* primary address and appends nothing.
C12_PrimaryKept ==
    [][\A d \in Domains, a \in AttachArgs, m \in MacPool :
          AttachNetwork(d, a, m) =>
              /\ md_ipv4[d] # NoIface =>
                    /\ md_ipv4'[d] = md_ipv4[d]
                    /\ additional_ipv4'[d] = Append(additional_ipv4[d], a)
              /\ (md_ipv4[d] = NoIface /\ IsAddressArg(a)) =>
                    /\ md_ipv4'[d] # NoIface
                    /\ md_ipv4'[d].ip = a.ip
                    /\ additional_ipv4'[d] = additional_ipv4[d]]_vars

\* C12 witness: a domain with a primary address got a further interface
\* with another static address, which is now its last additional address.
C12_Witness ==
    \E d \in Domains :
        /\ lastOp = Op("attachNetwork", d, "returned")
        /\ md_ipv4[d] # NoIface
        /\ additional_ipv4[d] # <<>>
        /\ IsAddressArg(additional_ipv4[d][Len(additional_ipv4[d])])
        /\ additional_ipv4[d][Len(additional_ipv4[d])].ip # md_ipv4[d].ip

NonEmpty(additional) == SelectSeq(additional, LAMBDA a : a.kind # "none")

\* C13: the Dialect A network document of a domain with a primary address
\* has one link per MAC address and 1 + n network entries, n the number of
\* non-empty additional addresses: first the primary static entry with a
\* default route via the gateway, then for each additional static address
\* an entry with its address and netmask and for each additional "dhcp" an
\* entry with the DHCP marker only.
C13_Original ==
    \A d \in defined : md_ipv4[d] # NoIface =>
        LET doc == generate_openstack_network_config(d)
            more == NonEmpty(additional_ipv4[d])
        IN  /\ ~doc.raised
            /\ Len(doc.links) = Len(macs[d])
            /\ \A i \in 1..Len(macs[d]) : doc.links[i].ethernet_mac_address = macs[d][i]
            /\ Len(doc.networks) = 1 + Len(more)
            /\ doc.networks[1].type = "ipv4"
            /\ doc.networks[1].ip_address = md_ipv4[d].ip
            /\ doc.networks[1].routes = <<[network |-> 0, netmask |-> 0, gateway |-> gateway.ip]>>
            /\ \A i \in 1..Len(more) :
                  IF more[i].kind = "dhcp"
                  THEN /\ doc.networks[i + 1].type = "ipv4_dhcp"
                       /\ doc.networks[i + 1].ip_address = -1
                       /\ doc.networks[i + 1].netmask = -1
                  ELSE /\ doc.networks[i + 1].type = "ipv4"
                       /\ doc.networks[i + 1].ip_address = more[i].ip
                       /\ doc.networks[i + 1].netmask > 0

\* ======================================================== start claims
LegacyFamily(distro) ==
    \/ startswith(distro, <<"rhel", "-", "6", ".">>)
    \/ startswith(distro, <<"centos", "-", "6", ".">>)

\* The seed media the calls of a start() built, by dialect.
MediaBuilt(calls) ==
    SelectSeq(calls, LAMBDA c : c \in {"prepare_cloud_init_nocloud_iso",
                                       "prepare_cloud_init_openstack_iso"})

DialectA == <<"prepare_cloud_init_openstack_iso">>
DialectB == <<"prepare_cloud_init_nocloud_iso">>

HintedDialect(provider) == IF provider = "nocloud" THEN DialectB ELSE DialectA

\* C14: a start() that builds its media builds exactly one, of the dialect
\* the provider hint names when one is given; with no hint it is Dialect B
\* for a distro starting with "rhel-6." or "centos-6." and Dialect A
\* otherwise.
C14_Original ==
    [][\A d \in Domains, p \in Providers :
          (Start(d, p) /\ steps' # <<>>) =>
              MediaBuilt(steps') = IF p # "" THEN HintedDialect(p)
                                  ELSE IF LegacyFamily(md_distro[d]) THEN DialectB
                                  ELSE DialectA]_vars

\* C14 as the code has it: a start() that builds its media builds exactly
\* one; it is Dialect B when the provider hint is "nocloud" and also, with
\* any other hint or none, when the distro starts with "rhel-6." or
\* "centos-6."; it is Dialect A in every other case.
C14_LegacyFamilyOverridesHint ==
    [][\A d \in Domains, p \in Providers :
          (Start(d, p) /\ steps' # <<>>) =>
              MediaBuilt(steps') = IF p = "nocloud" THEN DialectB
                                  ELSE IF LegacyFamily(md_distro[d]) THEN DialectB
                                  ELSE DialectA]_vars

\* C14 witness: a domain of a legacy family was started and registered, and
\* the one media its start() built is of Dialect B.
C14_Witness ==
    \E d \in Domains :
        /\ lastOp = Op("start", d, "returned")
        /\ LegacyFamily(md_distro[d])
        /\ MediaBuilt(steps) = DialectB
        /\ Cidata(d) \in volumes

\* ==================================================== lifecycle claims
Configured(d) == md_ipv4[d] # NoIface

MediaAttached(d) == \E i \in 1..Len(disks[d]) : disks[d][i].device = "cdrom"

Started(d) == d \in running

\* The network has a DNS host entry with the name of the domain.
OnNetwork(d) == \E i \in 1..Len(dns) : d \in SeqToSet(dns[i].names)

C16_Original ==
    [][\A d \in Domains :
          CleanUp(d) =>
              /\ d \notin running'
              /\ d \notin defined'
              /\ md_ipv4[d] # NoIface =>
                    /\ \A i \in 1..Len(dns') : dns'[i].ip # md_ipv4[d].ip
                    /\ \A i \in 1..Len(dhcp') : dhcp'[i].ip # md_ipv4[d].ip
              /\ \A i \in 1..Len(dhcp') : dhcp'[i].mac \notin SeqToSet(macs[d])
              /\ DiskFiles(disks[d]) \cap volumes' = {}]_vars

\* ====================================================== network claims
\* C17: init_network is idempotent.  When it has returned, the network of
\* the name exists and is active and the session holds its gateway; a call
\* that follows another call changes neither the network nor the gateway
\* the session holds, whatever cidr it is given; a call that has to create
\* the network gives it the first usable address of the cidr as gateway.
C17_Idempotent ==
    [][\A c \in Cidrs :
          (InitNetwork(c) /\ lastOp'.outcome = "returned") =>
              /\ hv_network'.exists /\ hv_network'.active
              /\ network_obj'
              /\ gateway' = hv_network'.ip
              /\ hv_network.exists => hv_network'.ip = hv_network.ip
              /\ lastOp.op = "init_network" =>
                    /\ hv_network' = hv_network
                    /\ gateway' = gateway
              /\ ~hv_network.exists =>
                    /\ gateway'.ip = c.base + 1
                    /\ gateway'.prefixlen = c.prefixlen
                    /\ NetworkOf(gateway') = c]_vars

\* C17 witness: init_network returned on a network that it had to create,
\* 192.0.2.16/29, which is active with gateway 192.0.2.17.
C17_Witness ==
    /\ lastOp = Op("init_network", "", "returned")
    /\ hv_network = ActiveNetwork(IPv4Interface(529, 29))
    /\ gateway = IPv4Interface(529, 29)
    /\ network_obj

CountEntry(table, entry) == Cardinality({i \in 1..Len(table) : table[i] = entry})

\* C18: set_dns_entry and set_dhcp_entry are idempotent: a call leaves its
\* entry at the front of the table and there exactly once, and a call for
\* the entry that the same call before it put at the front returns and
\* leaves the table as it was.
C18_Original ==
    [][/\ \A a \in {StaticAddress, OtherAddress}, n \in HostNames :
             SetDnsEntry(a, n) =>
                 LET entry == Head(set_dns_entry(<<>>, a, n)) IN
                 (dns # <<>> /\ Head(dns) = entry) =>
                     /\ lastOp'.outcome = "returned"
                     /\ dns' = dns
                     /\ CountEntry(dns', entry) = 1
       /\ \A a \in {StaticAddress, OtherAddress}, m \in HostMacs :
             SetDhcpEntry(a, m) =>
                 LET entry == Head(set_dhcp_entry(<<>>, a, m)) IN
                 (dhcp # <<>> /\ Head(dhcp) = entry) =>
                     /\ lastOp'.outcome = "returned"
                     /\ dhcp' = dhcp
                     /\ CountEntry(dhcp', entry) = 1]_vars

\* ================================================== concurrency claims
SameAddress(d, e) == md_ipv4[d] # NoIface /\ md_ipv4[d] = md_ipv4[e]

\* C19: when the flows are serialized, each allocation with its persist and
\* registration completing before the next begins, no two defined domains
\* hold the same address; when they interleave, a state with two domains
\* on the same address is reachable (C19_Witness).
C19_SerializedDistinct ==
    serialized =>
        \A d, e \in defined : d # e => ~SameAddress(d, e)

\* C19 witness: two interleaved flows each scanned before the other had
\* persisted; both domains hold the same address and both were started and
\* registered with it.
C19_Witness ==
    /\ ~serialized
    /\ \E d, e \in defined :
          /\ d # e
          /\ SameAddress(d, e)
          /\ flows[d].pc = "persisted" /\ flows[e].pc = "persisted"
          /\ d \in running /\ e \in running
          /\ lastOp = Op("start", e, "replaced")

\* ================================================= start order claims
StartCalls(prepare) ==
    <<prepare, "attachDisk", "create", "remove_domain_from_network",
      "set_dns_entry", "set_dhcp_entry">>

IsPrefix(p, q) == Len(p) <= Len(q) /\ SubSeq(q, 1, Len(p)) = p

Called(c) == c \in SeqToSet(steps)

\* C20: the calls of one start() come in the order build the seed volume,
\* attach it as cdrom, start the domain, retract the entries of the domain,
\* register DNS and DHCP, each at most once.  So the seed volume is in the
\* pool and attached when the domain is started, the domain runs when it is
\* registered, every start() that started the domain also retracted, and
\* the entry it registered is the only one for the address afterwards.
C20_StartOrder ==
    \A d \in Domains : (lastOp.op = "start" /\ lastOp.dom = d) =>
        /\ \E prepare \in {"prepare_cloud_init_nocloud_iso",
                            "prepare_cloud_init_openstack_iso"} :
              IsPrefix(steps, StartCalls(prepare))
        /\ Called("attachDisk") =>
              /\ Cidata(d) \in volumes
              /\ disks[d][Len(disks[d])].file = Cidata(d)
              /\ disks[d][Len(disks[d])].device = "cdrom"
        /\ Called("create") => (d \in running /\ Called("remove_domain_from_network"))
        /\ Called("set_dns_entry") =>
              /\ d \in running
              /\ dns # <<>>
              /\ Head(dns) = [ip |-> md_ipv4[d].ip, names |-> <<d>>]
              /\ CountHosts(dns, LAMBDA h : h.ip = md_ipv4[d].ip) = 1
        /\ Called("set_dhcp_entry") =>
              /\ dhcp # <<>>
              /\ Head(dhcp) = [ip |-> md_ipv4[d].ip, mac |-> macs[d][1]]
              /\ CountHosts(dhcp, LAMBDA h : h.ip = md_ipv4[d].ip \/ h.mac \in SeqToSet(macs[d])) = 1

\* C20 witness: a start() ran all its calls on a domain that had entries on
\* the network, which it retracted before it registered the new ones.
C20_Witness ==
    \E d \in Domains :
        /\ lastOp = Op("start", d, "replaced")
        /\ steps = StartCalls("prepare_cloud_init_openstack_iso")
        /\ Head(dns).names = <<d>>

\* C21: clean_up runs its steps in a fixed sequence and a failure aborts the
\* remaining ones.  Whenever clean_up ends, by returning or by raising, a
\* domain it stopped has had its network entries retracted, a domain it
\* undefined is not running, and volumes are deleted only of a domain it
\* undefined.  When the retraction raises, the domain is neither stopped nor
\* undefined and no volume is deleted; when undefineFlags raises, the domain
\* stays defined and no volume is deleted; the caller sees the error.
C21_Retracted(d) ==
    /\ dns' = remove_dns(dns, md_ipv4[d])
    /\ dhcp' = remove_dhcp(dhcp, md_ipv4[d], macs[d])

C21_Sequence(d) ==
    /\ (d \in running /\ d \notin running') => C21_Retracted(d)
    /\ d \notin defined' => (d \notin running' /\ C21_Retracted(d))
    /\ volumes' # volumes => d \notin defined'

C21_FailureAborts ==
    [][\A d \in OneDomain :
          /\ CleanUp(d) => C21_Sequence(d)
          /\ \A at \in SeqToSet(CleanUpCalls), passes \in 0..1, k \in 1..MaxDisks :
                CleanUpRaises(d, at, passes, k) =>
                  /\ C21_Sequence(d)
                  /\ lastOp' = Op("clean_up", d, "raised")
                  /\ at = "remove_domain_from_network" =>
                        /\ running' = running
                        /\ defined' = defined
                        /\ volumes' = volumes
                  /\ at = "undefineFlags" =>
                        (d \in defined' /\ volumes' = volumes)]_vars

\* undefineFlags raised on a started domain with a root disk: the domain
\* is stopped, still defined, and its volumes are in the pool.
C21_Witness ==
    /\ lastOp = Op("clean_up", "vm1", "raised")
    /\ steps = <<"remove_domain_from_network", "destroy">>
    /\ "vm1" \in defined
    /\ "vm1" \notin running
    /\ {RootDisk("vm1"), Cidata("vm1")} \subseteq volumes
    /\ {RootDisk("vm1"), Cidata("vm1")} \subseteq DiskFiles(disks["vm1"])

\* C22: get_free_ipv4 returns only host addresses of the managed network:
\* never the network address and never the broadcast address, for any used
\* set and cursor.
C22_Original ==
    ret # NoIface => ret.ip \notin {network.base, LastAddress(network)}

\* C23: reachable() returns only after a connection to port 22 delivered
\* data starting with "SSH"; a refused or failed connection and a response
\* that is not SSH are followed by the next attempt, however many attempts
\* failed before; and a probe of a domain with an address returns once the
\* service responds with SSH from then on.
C23_Awaiting(d) == probe[d].pc \in {"connecting", "reading"}

C23_FailedAttempt(d) ==
    \/ OpenConnection(d) /\ md_ipv4[d] # NoIface /\ ConnectRaises(service[d])
    \/ ReaderRead(d) /\ (ReadRaises(service[d]) \/ service[d] # "ssh")

C23_Original ==
    /\ [][\A d \in OneDomain :
            (probe[d].pc # "returned" /\ probe'[d].pc = "returned") =>
               (ReaderRead(d) /\ startswith(Received(service[d]), SshPrefix))]_vars
    /\ [][\A d \in OneDomain :
            C23_FailedAttempt(d) => probe'[d].pc = "connecting"]_vars
    /\ \A d \in OneDomain :
          (C23_Awaiting(d) /\ md_ipv4[d] # NoIface /\ [](service[d] = "ssh"))
             ~> (probe[d].pc = "returned")

\* C24: remove_domain_from_network changes only entries of the domain: the
\* DNS hosts whose ip differs from the domain's address, and the DHCP hosts
\* whose ip differs from it and whose mac is none of the domain's
\* interfaces, are the same entries in the same order afterwards.
C24_OtherDns(table, d) ==
    SelectSeq(table, LAMBDA h : h.ip # md_ipv4[d].ip)

C24_OtherDhcp(table, d) ==
    SelectSeq(table, LAMBDA h : h.ip # md_ipv4[d].ip /\ h.mac \notin SeqToSet(macs[d]))

C24_OthersKept ==
    [][\A d \in OneDomain :
          RemoveDomainFromNetwork(d) =>
             /\ C24_OtherDns(dns', d) = C24_OtherDns(dns, d)
             /\ C24_OtherDhcp(dhcp', d) = C24_OtherDhcp(dhcp, d)]_vars

\* A retraction for a domain with an address and an interface left a DNS
\* host and a DHCP host of another address and MAC in the tables.
C24_Witness ==
    /\ lastOp = Op("remove_domain_from_network", "vm1", "returned")
    /\ md_ipv4["vm1"] = StaticAddress
    /\ macs["vm1"] = <<"m1">>
    /\ dns = <<[ip |-> OtherAddress.ip, names |-> <<"vm1">>],
               [ip |-> OtherAddress.ip, names |-> <<"other">>]>>
    /\ dhcp = <<[ip |-> OtherAddress.ip, mac |-> "m2"]>>

\* C25: clean_up(domain) deletes only volumes behind the file-backed disks
\* of that domain's definition: the base images, the backing image of its
\* root disk among them, and the volumes of the other defined domains are
\* still in the pool, and the other domains stay defined with their DNS and
\* DHCP host entries in place (the DNS hosts of their address and name, the
\* DHCP hosts of their address and interface).
C25_Files(d) == {disks[d][i].file : i \in 1..Len(disks[d])}

C25_Dns(table, e) ==
    SelectSeq(table, LAMBDA h : h.ip = md_ipv4[e].ip /\ e \in SeqToSet(h.names))

C25_Dhcp(table, e) ==
    SelectSeq(table, LAMBDA h : h.ip = md_ipv4[e].ip /\ h.mac \in SeqToSet(macs[e]))

C25_EntriesKept(e) ==
    /\ C25_Dns(dns', e) = C25_Dns(dns, e)
    /\ C25_Dhcp(dhcp', e) = C25_Dhcp(dhcp, e)

C25_StorageFrame(d) ==
    /\ (volumes \ volumes') \subseteq C25_Files(d)
    /\ BaseImage \in volumes'
    /\ \A e \in defined \ {d} :
          /\ e \in defined'
          /\ (C25_Files(e) \cap volumes) \subseteq volumes'

C25_Original ==
    [][\A d \in OneDomain :
          CleanUp(d) =>
             /\ C25_StorageFrame(d)
             /\ \A e \in defined \ {d} : C25_EntriesKept(e)]_vars

\* C25 as the code has it: the entries of another domain are kept when its
\* address is not the address of the destroyed domain; the retraction of
\* clean_up deletes every host of the destroyed domain's address.
C25_OtherAddressKept ==
    [][\A d \in OneDomain :
          CleanUp(d) =>
             /\ C25_StorageFrame(d)
             /\ \A e \in defined \ {d} :
                   md_ipv4[e] # md_ipv4[d] => C25_EntriesKept(e)]_vars

\* The first domain was destroyed: the volumes of its root disk and seed
\* disk are gone, the base image behind the root disk is in the pool, and
\* the started neighbour is defined with its seed volume and its entries of
\* another address.
C25_Witness ==
    /\ lastOp = Op("clean_up", "vm1", "returned")
    /\ volumes = {BaseImage, Cidata("vm2")}
    /\ "vm2" \in running
    /\ md_ipv4["vm2"] = OtherAddress
    /\ dns = <<[ip |-> OtherAddress.ip, names |-> <<"vm2">>]>>
    /\ dhcp = <<[ip |-> OtherAddress.ip, mac |-> "m2"]>>

\* C26: in the network document of generate_openstack_network_config every
\* network entry's link is the id of a link of the links list, and the
\* entry of an address is bound to the interface attached by the call that
\* recorded the address.  Right after an attachNetwork call the links of
\* all entries exist, and when the call had an address argument, the entry the call gave rise to (the primary entry when the
\* call set the primary address, else the last entry) names the link whose
\* MAC address is the one the call attached.
C26_LinkIds(doc) == {doc.links[i].id : i \in 1..Len(doc.links)}

C26_LinksExist(doc) ==
    \A i \in 1..Len(doc.networks) : doc.networks[i].link \in C26_LinkIds(doc)

C26_MacOf(doc, link) ==
    {doc.links[i].ethernet_mac_address : i \in {j \in 1..Len(doc.links) : doc.links[j].id = link}}

C26_EntryOfCall(doc, wasPrimary) ==
    IF wasPrimary THEN doc.networks[1] ELSE doc.networks[Len(doc.networks)]

C26_Original ==
    [][\A d \in OneDomain, a \in AttachArgs, m \in MacPool :
          LET doc == generate_openstack_network_config(d)' IN
          (AttachNetwork(d, a, m) /\ lastOp'.outcome = "returned" /\ ~doc.raised) =>
             /\ C26_LinksExist(doc)
             /\ a # ArgNone =>
                   C26_MacOf(doc, C26_EntryOfCall(doc, md_ipv4[d] = NoIface).link) = {m}]_vars

\* C27: the user entry of user_data does not depend on the order in which
\* the SSH key and the username are applied.  From every state, loading a
\* key and then setting a username gives the same users and
\* ssh_authorized_keys as setting the username and then loading the key;
\* and once a key has been loaded and a username set, in whatever order and
\* number, users[0].ssh_authorized_keys and the top-level
\* ssh_authorized_keys are the list of the key loaded last and
\* users[0].name is the username set last.
C27_Commute(dm, file, username) ==
    LET keyFirst == set_username(load_ssh_key_file(dm, file), username)
        nameFirst == load_ssh_key_file(set_username(dm, username), file)
    IN  /\ keyFirst.ud_users = nameFirst.ud_users
        /\ keyFirst.ud_ssh_authorized_keys = nameFirst.ud_ssh_authorized_keys
        /\ nameFirst.ud_users.ssh_authorized_keys = Just(FileContent(file))
        /\ nameFirst.ud_ssh_authorized_keys = Just(FileContent(file))
        /\ nameFirst.ud_users.name = username

C27_LastLoaded ==
    IF lastOp = Op("load_ssh_key_file", "vm1", "returned")
    THEN Just(FileContent(arg)) ELSE domain.ssh_key

C27_LastSet ==
    IF lastOp = Op("username", "vm1", "returned") THEN Just(arg) ELSE domain.md_username

C27_OrderIndependent ==
    /\ \A file \in {f \in KeyFiles : Readable(f)},
          username \in {u \in Usernames : MatchUsername(u)} :
          C27_Commute(domain, file, username)
    /\ (domain.ssh_key.set /\ domain.ud_users.set) =>
          /\ domain.ud_users.ssh_authorized_keys = C27_LastLoaded
          /\ domain.ud_ssh_authorized_keys = C27_LastLoaded
          /\ Just(domain.ud_users.name) = C27_LastSet

\* A key was loaded after a username had been set: the user entry and the
\* top-level list hold the new key.
C27_Witness ==
    /\ lastOp = Op("load_ssh_key_file", "vm1", "returned")
    /\ arg = Key2
    /\ domain.md_username = Just(Bob)
    /\ domain.ud_users.ssh_authorized_keys = Just(FileContent(Key2))
    /\ domain.ud_ssh_authorized_keys = Just(FileContent(Key2))
====
